---- MODULE Spec2Model ----
(***************************************************************************)
(* Model of the HTTP response-envelope / error-normalization layer of the  *)
(* blog: src/lib/ky-client.ts (http.get/delete/post/put/patch) together    *)
(* with the helpers it imports from src/lib/api-response (parseApiResponse,*)
(* ensureOk, ApiError, toApiErrorAsync, extractFailureFromHttpError).      *)
(*                                                                         *)
(* JavaScript values are tagged records; JavaScript strings are TLA+       *)
(* strings, so a response body is a real text that JSONparse has to read   *)
(* character by character.                                                 *)
(***************************************************************************)
EXTENDS Integers, Sequences, FiniteSets, TLC

(***************************************************************************)
(* JavaScript values                                                       *)
(***************************************************************************)
Undefined == [t |-> "undefined"]
Null == [t |-> "null"]
Bool(b) == [t |-> "bool", b |-> b]
Num(n) == [t |-> "num", n |-> n]
Str(s) == [t |-> "str", s |-> s]
Arr(a) == [t |-> "arr", a |-> a]
Obj(o) == [t |-> "obj", o |-> o]

\* The object literal {} : a function with an empty domain.
EmptyObj == Obj(<<>>)

\* x == null || x === undefined
IsNullish(x) == x.t \in {"undefined", "null"}

\* x.key for a value that is neither null nor undefined (a primitive or an
\* array has none of the envelope's keys; an Error has the fields it carries).
Get(x, key) ==
  CASE x.t = "obj" -> IF key \in DOMAIN x.o THEN x.o[key] ELSE Undefined
    [] x.t \in {"Error", "ApiError", "HTTPError"} ->
         IF key \in DOMAIN x THEN x[key] ELSE Undefined
    [] OTHER -> Undefined

\* x?.key
OptGet(x, key) == IF IsNullish(x) THEN Undefined ELSE Get(x, key)

\* a ?? b
Coalesce(a, b) == IF IsNullish(a) THEN b ELSE a

\* JavaScript truthiness
Truthy(x) ==
  CASE x.t \in {"undefined", "null"} -> FALSE
    [] x.t = "bool" -> x.b
    [] x.t = "num" -> x.n # 0
    [] x.t = "str" -> x.s # ""
    [] OTHER -> TRUE

(***************************************************************************)
(* Strings                                                                 *)
(***************************************************************************)
CharAt(s, i) == SubSeq(s, i, i)

Whitespace == {" ", "\t", "\n", "\r"}

Digits == {"0", "1", "2", "3", "4", "5", "6", "7", "8", "9"}

DigitVal(c) ==
  CASE c = "0" -> 0 [] c = "1" -> 1 [] c = "2" -> 2 [] c = "3" -> 3
    [] c = "4" -> 4 [] c = "5" -> 5 [] c = "6" -> 6 [] c = "7" -> 7
    [] c = "8" -> 8 [] c = "9" -> 9

\* String.prototype.slice(0, n)
Slice(s, n) == SubSeq(s, 1, IF Len(s) < n THEN Len(s) ELSE n)

\* s.startsWith(w, i-1)
StartsWithAt(s, i, w) ==
  /\ i + Len(w) - 1 <= Len(s)
  /\ SubSeq(s, i, i + Len(w) - 1) = w

\* String.prototype.includes
Includes(s, w) == \E i \in 1..(Len(s) + 1) : StartsWithAt(s, i, w)

\* String.prototype.repeat
RECURSIVE Repeat(_, _)
Repeat(c, n) ==
  IF n = 0 THEN ""
  ELSE IF n % 2 = 0 THEN LET half == Repeat(c, n \div 2) IN half \o half
  ELSE c \o Repeat(c, n - 1)

(***************************************************************************)
(* JSON.parse, on texts without escape sequences and with integer numbers  *)
(* (the body texts drawn below contain neither a backslash, a fraction nor *)
(* an exponent).  A result is [ok, val, pos]: ok = FALSE is the            *)
(* SyntaxError, pos the index after the value read.                        *)
(***************************************************************************)
ParseFail == [ok |-> FALSE, val |-> Undefined, pos |-> 0]
ParseOk(v, p) == [ok |-> TRUE, val |-> v, pos |-> p]

RECURSIVE SkipWs(_, _)
SkipWs(s, i) ==
  IF i <= Len(s) /\ CharAt(s, i) \in Whitespace THEN SkipWs(s, i + 1) ELSE i

RECURSIVE ScanDigits(_, _)
ScanDigits(s, i) ==
  IF i <= Len(s) /\ CharAt(s, i) \in Digits THEN ScanDigits(s, i + 1) ELSE i

RECURSIVE DigitsValue(_, _, _, _)
DigitsValue(s, i, k, acc) ==
  IF i >= k THEN acc
  ELSE DigitsValue(s, i + 1, k, 10 * acc + DigitVal(CharAt(s, i)))

ParseNumber(s, i) ==
  LET neg == CharAt(s, i) = "-"
      j == IF neg THEN i + 1 ELSE i
      k0 == ScanDigits(s, j)
      \* a leading 0 ends the number
      k == IF k0 > j /\ CharAt(s, j) = "0" THEN j + 1 ELSE k0
      n == DigitsValue(s, j, k, 0)
  IN IF k = j THEN ParseFail
     ELSE ParseOk(Num(IF neg THEN 0 - n ELSE n), k)

\* index of the closing quote, or 0 when the string is unterminated or holds
\* a character a JSON string cannot hold unescaped
ScanString(s, i) ==
  LET Stops(k) == CharAt(s, k) \in {"\"", "\\", "\t", "\n", "\r"}
  IN IF \E k \in i..Len(s) : Stops(k)
     THEN LET q == CHOOSE k \in i..Len(s) : Stops(k) /\ \A m \in i..(k - 1) : ~Stops(m)
          IN IF CharAt(s, q) = "\"" THEN q ELSE 0
     ELSE 0

\* s[i] is the opening quote
ParseString(s, i) ==
  LET q == ScanString(s, i + 1)
  IN IF q = 0 THEN ParseFail ELSE ParseOk(Str(SubSeq(s, i + 1, q - 1)), q + 1)

RECURSIVE ParseValue(_, _)
RECURSIVE ParseElems(_, _, _)
RECURSIVE ElemParsed(_, _, _)
RECURSIVE ParseMembers(_, _, _)
RECURSIVE KeyParsed(_, _, _)
RECURSIVE MemberParsed(_, _, _, _)

ParseValue(s, i0) ==
  LET i == SkipWs(s, i0)
  IN IF i > Len(s) THEN ParseFail
     ELSE LET c == CharAt(s, i)
          IN CASE c = "n" ->
                    IF StartsWithAt(s, i, "null") THEN ParseOk(Null, i + 4)
                    ELSE ParseFail
               [] c = "t" ->
                    IF StartsWithAt(s, i, "true")
                    THEN ParseOk(Bool(TRUE), i + 4) ELSE ParseFail
               [] c = "f" ->
                    IF StartsWithAt(s, i, "false")
                    THEN ParseOk(Bool(FALSE), i + 5) ELSE ParseFail
               [] c = "\"" -> ParseString(s, i)
               [] c = "[" ->
                    LET j == SkipWs(s, i + 1)
                    IN IF j <= Len(s) /\ CharAt(s, j) = "]"
                       THEN ParseOk(Arr(<<>>), j + 1)
                       ELSE ParseElems(s, i + 1, <<>>)
               [] c = "{" ->
                    LET j == SkipWs(s, i + 1)
                    IN IF j <= Len(s) /\ CharAt(s, j) = "}"
                       THEN ParseOk(EmptyObj, j + 1)
                       ELSE ParseMembers(s, i + 1, <<>>)
               [] c \in Digits \cup {"-"} -> ParseNumber(s, i)
               [] OTHER -> ParseFail

\* the elements of an array, from the one that starts at i
ParseElems(s, i, acc) == ElemParsed(s, acc, ParseValue(s, i))

\* r is the element just parsed: a comma, the closing bracket, or an error
ElemParsed(s, acc, r) ==
  IF ~r.ok THEN ParseFail
  ELSE LET j == SkipWs(s, r.pos)
       IN IF j > Len(s) THEN ParseFail
          ELSE IF CharAt(s, j) = "," THEN ParseElems(s, j + 1, Append(acc, r.val))
          ELSE IF CharAt(s, j) = "]" THEN ParseOk(Arr(Append(acc, r.val)), j + 1)
          ELSE ParseFail

\* the members of an object, from the one whose key starts at or after i
ParseMembers(s, i, acc) ==
  LET j == SkipWs(s, i)
  IN IF j > Len(s) \/ CharAt(s, j) # "\"" THEN ParseFail
     ELSE KeyParsed(s, acc, ParseString(s, j))

\* k is the key just parsed: a colon and the value follow
KeyParsed(s, acc, k) ==
  IF ~k.ok THEN ParseFail
  ELSE LET c == SkipWs(s, k.pos)
       IN IF c > Len(s) \/ CharAt(s, c) # ":" THEN ParseFail
          ELSE MemberParsed(s, acc, k.val.s, ParseValue(s, c + 1))

\* v is the value just parsed for key: a comma, the closing brace, or an error
MemberParsed(s, acc, key, v) ==
  IF ~v.ok THEN ParseFail
  ELSE LET m == SkipWs(s, v.pos)
           \* a repeated key keeps the last value
           next == (key :> v.val) @@ acc
       IN IF m > Len(s) THEN ParseFail
          ELSE IF CharAt(s, m) = "," THEN ParseMembers(s, m + 1, next)
          ELSE IF CharAt(s, m) = "}" THEN ParseOk(Obj(next), m + 1)
          ELSE ParseFail

\* r is the value parsed from the start of s: nothing but whitespace may follow
WholeText(s, r) ==
  IF r.ok /\ SkipWs(s, r.pos) > Len(s)
  THEN [ok |-> TRUE, val |-> r.val]
  ELSE [ok |-> FALSE, val |-> Undefined]

\* JSON.parse(text): [ok |-> TRUE, val] or the thrown SyntaxError (ok = FALSE)
JSONparse(s) == WholeText(s, ParseValue(s, 1))

(***************************************************************************)
(* JSON.stringify, which is how a route handler of the application writes  *)
(* an envelope on the wire (NextResponse.json).                            *)
(***************************************************************************)
RECURSIVE Stringify(_)
RECURSIVE StringifyElems(_)
RECURSIVE StringifyMembers(_, _)

StringifyElems(a) ==
  IF a = <<>> THEN ""
  ELSE IF Len(a) = 1 THEN Stringify(a[1])
  ELSE Stringify(a[1]) \o "," \o StringifyElems(Tail(a))

StringifyMembers(o, keys) ==
  IF keys = {} THEN ""
  ELSE LET k == CHOOSE x \in keys : TRUE
           rest == keys \ {k}
           one == "\"" \o k \o "\":" \o Stringify(o[k])
       IN IF rest = {} THEN one ELSE one \o "," \o StringifyMembers(o, rest)

Stringify(v) ==
  CASE v.t = "null" -> "null"
    [] v.t = "bool" -> IF v.b THEN "true" ELSE "false"
    [] v.t = "num" -> ToString(v.n)
    [] v.t = "str" -> "\"" \o v.s \o "\""
    [] v.t = "arr" -> "[" \o StringifyElems(v.a) \o "]"
    [] v.t = "obj" -> "{" \o StringifyMembers(v.o, DOMAIN v.o) \o "}"

(***************************************************************************)
(* More of the JavaScript runtime: String(x), trim, typeof, instanceof     *)
(***************************************************************************)
RECURSIVE JSToString(_)
RECURSIVE JoinElems(_)

\* Array.prototype.join(","): null and undefined elements print as ""
JoinElems(a) ==
  IF a = <<>> THEN ""
  ELSE LET h == IF IsNullish(a[1]) THEN "" ELSE JSToString(a[1])
       IN IF Len(a) = 1 THEN h ELSE h \o "," \o JoinElems(Tail(a))

\* String(x), as the Error constructor applies it to its message argument
JSToString(x) ==
  CASE x.t = "str" -> x.s
    [] x.t = "num" -> ToString(x.n)
    [] x.t = "bool" -> IF x.b THEN "true" ELSE "false"
    [] x.t = "null" -> "null"
    [] x.t = "undefined" -> "undefined"
    [] x.t = "arr" -> JoinElems(x.a)
    [] x.t = "obj" -> "[object Object]"
    [] OTHER -> x.name.s \o ": " \o x.message.s

RECURSIVE TrimStart(_)
TrimStart(s) ==
  IF s # "" /\ CharAt(s, 1) \in Whitespace
  THEN TrimStart(SubSeq(s, 2, Len(s))) ELSE s

RECURSIVE TrimEnd(_)
TrimEnd(s) ==
  IF s # "" /\ CharAt(s, Len(s)) \in Whitespace
  THEN TrimEnd(SubSeq(s, 1, Len(s) - 1)) ELSE s

\* trimStart in place of trim
Trim_StartOnly(s) == TrimStart(s)

\* String.prototype.trim
Trim(s) == TrimEnd(TrimStart(s))

\* typeof x === "object"
TypeofObject(x) == x.t \in {"null", "arr", "obj", "Error", "ApiError", "HTTPError"}

\* x instanceof Error
InstanceofError(x) == x.t \in {"Error", "ApiError", "HTTPError"}

\* key in x, for an x that typeof reports as a non-null object
HasKey(x, key) ==
  CASE x.t = "obj" -> key \in DOMAIN x.o
    [] x.t \in {"Error", "ApiError", "HTTPError"} -> key \in DOMAIN x
    [] OTHER -> FALSE

\* new TypeError(message) and the other Error values that are not an HTTPError
ErrorValue(name, message) ==
  [t |-> "Error", name |-> Str(name), message |-> Str(message)]

(***************************************************************************)
(* Responses handed out by the transport                                   *)
(***************************************************************************)
NoResponse == [t |-> "none"]

\* Response.ok
ResponseOk(response) == response.status >= 200 /\ response.status <= 299

\* await response.text(): the text, or the rejection of a body that was read
\* before or of a broken body stream
ResponseText(response) ==
  IF response.bodyUsed
  THEN [threw |-> TRUE, val |-> ErrorValue("TypeError", "Body is unusable")]
  ELSE IF response.readable
  THEN [threw |-> FALSE, val |-> Str(response.text)]
  ELSE [threw |-> TRUE, val |-> ErrorValue("TypeError", "Failed to read the body")]

\* the response once its body has been read
Consumed(response) == [response EXCEPT !.bodyUsed = TRUE]

\* response.clone(): a second Response over the same body, with a stream of
\* its own; a TypeError once the body has been read
Clone(response) ==
  IF response.bodyUsed
  THEN [threw |-> TRUE, val |-> ErrorValue("TypeError", "Response body is already used")]
  ELSE [threw |-> FALSE, val |-> response]

\* res.headers.get("content-type") || ""
ContentTypeOf(response) ==
  IF Truthy(response.contentType) THEN response.contentType.s ELSE ""

(***************************************************************************)
(* src/lib/ky-client.ts, the envelope helpers                              *)
(***************************************************************************)
Returned(v) == [threw |-> FALSE, val |-> v]
Threw(e) == [threw |-> TRUE, val |-> e]

\* the length of the raw excerpt kept by the parser
RawExcerptLen == 200

\* the length of the text message kept by the normalizer
TextMessageLen == 500

\* an ApiError that reads the top-level message before error.message
ApiError_TopMessageFirst(failure) ==
  [t |-> "ApiError",
   name |-> Str("Error"),
   message |-> Str(JSToString(
       Coalesce(Get(failure, "message"),
                Coalesce(OptGet(Get(failure, "error"), "message"), Str("API Error"))))),
   code |-> OptGet(Get(failure, "error"), "code"),
   statusCode |-> Get(failure, "statusCode"),
   correlationId |-> Get(failure, "correlationId"),
   details |-> OptGet(Get(failure, "error"), "details"),
   fields |-> OptGet(Get(failure, "error"), "fields")]

\* class ApiError: new ApiError(failure), failure neither null nor undefined
ApiError(failure) ==
  [t |-> "ApiError",
   name |-> Str("Error"),
   message |-> Str(JSToString(
       Coalesce(OptGet(Get(failure, "error"), "message"),
                Coalesce(Get(failure, "message"), Str("API Error"))))),
   code |-> OptGet(Get(failure, "error"), "code"),
   statusCode |-> Get(failure, "statusCode"),
   correlationId |-> Get(failure, "correlationId"),
   details |-> OptGet(Get(failure, "error"), "details"),
   fields |-> OptGet(Get(failure, "error"), "fields")]

\* isOk with a truthiness test in place of === true
IsOk_Truthy(response) ==
  IF IsNullish(response)
  THEN Threw(ErrorValue("TypeError", "Cannot read properties of null (reading 'success')"))
  ELSE Returned(Truthy(Get(response, "success")))

\* isOk(response): reading .success of null is a TypeError
IsOk(response) ==
  IF IsNullish(response)
  THEN Threw(ErrorValue("TypeError", "Cannot read properties of null (reading 'success')"))
  ELSE Returned(Get(response, "success") = Bool(TRUE))

\* ensureOk handing back the data of a success instead of the envelope
EnsureOk_Unwrap(response) ==
  LET ok == IsOk(response)
  IN IF ok.threw THEN ok
     ELSE IF ok.val THEN Returned(Get(response, "data"))
     ELSE Threw(ApiError(response))

\* ensureOk(response)
EnsureOk(response) ==
  LET ok == IsOk(response)
  IN IF ok.threw THEN ok
     ELSE IF ok.val THEN Returned(response)
     ELSE Threw(ApiError(response))

\* unwrap(response)
Unwrap(response) ==
  IF EnsureOk(response).threw
  THEN EnsureOk(response)
  ELSE Returned(Get(EnsureOk(response).val, "data"))

\* looksLikeApiResponse(x)
LooksLikeApiResponse(x) == Truthy(x) /\ TypeofObject(x) /\ HasKey(x, "success")

\* isHTTPError(error)
IsHTTPError(error) ==
  /\ Truthy(error)
  /\ TypeofObject(error)
  /\ HasKey(error, "response")
  /\ Get(error, "name") = Str("HTTPError")

\* the Failure built by parseApiResponse and extractFailureFromHttpError
Failure(status, code, message, details) ==
  Obj("success" :> Bool(FALSE)
      @@ "statusCode" :> Num(status)
      @@ "error" :> Obj("code" :> Str(code)
                        @@ "message" :> message
                        @@ "details" :> details))

\* parseApiResponse with the test of response.ok inverted
ParseText_InvertedOk(response, text, json) ==
  IF text = ""
  THEN IF ~ResponseOk(response)
       THEN Obj("success" :> Bool(TRUE)
                @@ "data" :> Undefined
                @@ "statusCode" :> Num(response.status))
       ELSE Failure(response.status, "EMPTY_ERROR_BODY", Str("Empty response body"),
                    Obj("url" :> Str(response.url)
                        @@ "statusText" :> Str(response.statusText)))
  ELSE IF json.ok THEN json.val
     ELSE Failure(response.status, "INVALID_JSON", Str("Response is not valid JSON"),
                  Obj("url" :> Str(response.url)
                      @@ "raw" :> Str(Slice(text, RawExcerptLen))))

\* parseApiResponse without the test of response.ok
ParseText_EmptyIsSuccess(response, text, json) ==
  IF text = ""
  THEN Obj("success" :> Bool(TRUE)
           @@ "data" :> Undefined
           @@ "statusCode" :> Num(response.status))
  ELSE IF json.ok THEN json.val
     ELSE Failure(response.status, "INVALID_JSON", Str("Response is not valid JSON"),
                  Obj("url" :> Str(response.url)
                      @@ "raw" :> Str(Slice(text, RawExcerptLen))))

\* parseApiResponse keeping the whole text as details.raw
ParseText_RawUncut(response, text, json) ==
  IF text = ""
  THEN IF ResponseOk(response)
       THEN Obj("success" :> Bool(TRUE)
                @@ "data" :> Undefined
                @@ "statusCode" :> Num(response.status))
       ELSE Failure(response.status, "EMPTY_ERROR_BODY", Str("Empty response body"),
                    Obj("url" :> Str(response.url)
                        @@ "statusText" :> Str(response.statusText)))
  ELSE IF json.ok THEN json.val
     ELSE Failure(response.status, "INVALID_JSON", Str("Response is not valid JSON"),
                  Obj("url" :> Str(response.url) @@ "raw" :> Str(text)))

\* parseApiResponse taking the parsed JSON of an ok response for the data
ParseText_WrapsBody(response, text, json) ==
  IF text = ""
  THEN IF ResponseOk(response)
       THEN Obj("success" :> Bool(TRUE)
                @@ "data" :> Undefined
                @@ "statusCode" :> Num(response.status))
       ELSE Failure(response.status, "EMPTY_ERROR_BODY", Str("Empty response body"),
                    Obj("url" :> Str(response.url)
                        @@ "statusText" :> Str(response.statusText)))
  ELSE IF json.ok
     THEN IF ResponseOk(response)
          THEN Obj("success" :> Bool(TRUE) @@ "data" :> json.val
                   @@ "statusCode" :> Num(response.status))
          ELSE json.val
     ELSE Failure(response.status, "INVALID_JSON", Str("Response is not valid JSON"),
                  Obj("url" :> Str(response.url)
                      @@ "raw" :> Str(Slice(text, RawExcerptLen))))

\* parseApiResponse(response), after response.text() has resolved to text and
\* with json the outcome of JSON.parse(text)
ParseText(response, text, json) ==
  IF text = ""
  THEN IF ResponseOk(response)
       THEN Obj("success" :> Bool(TRUE)
                @@ "data" :> Undefined
                @@ "statusCode" :> Num(response.status))
       ELSE Failure(response.status, "EMPTY_ERROR_BODY", Str("Empty response body"),
                    Obj("url" :> Str(response.url)
                        @@ "statusText" :> Str(response.statusText)))
  ELSE IF json.ok THEN json.val
     ELSE Failure(response.status, "INVALID_JSON", Str("Response is not valid JSON"),
                  Obj("url" :> Str(response.url)
                      @@ "raw" :> Str(Slice(text, RawExcerptLen))))

\* parseApiResponse(response): rejects when the body cannot be read
ParseApiResponse(response) ==
  LET text == ResponseText(response)
  IN IF text.threw THEN text
     ELSE Returned(ParseText(response, text.val.s, JSONparse(text.val.s)))

\* the read of the cloned body without its try/catch
RawTextOf_NoTry(response) ==
  LET text == ResponseText(response)
  IN IF text.threw THEN text ELSE Returned(text.val.s)

\* the read of the raw text from the response itself, without clone()
ReadRawText_NoClone(response) ==
  [text |-> IF ResponseText(response).threw THEN "" ELSE response.text,
   response |-> Consumed(response)]

\* let rawText = ""; try { rawText = await res.clone().text() } catch {}:
\* rawText, and res as the read leaves it (the stream read is the clone's)
ReadRawText(response) ==
  [text |-> IF Clone(response).threw \/ ResponseText(response).threw
            THEN "" ELSE response.text,
   response |-> response]

\* rawText after the try/catch
RawTextOf(response) == Returned(ReadRawText(response).text)

\* a ?? b in place of a || b
OrElse_Nullish(a, b) == IF IsNullish(a) THEN b ELSE a

\* a || b
OrElse(a, b) == IF Truthy(a) THEN a ELSE b

\* extractFailureFromHttpError with the HTTP status written over the
\* statusCode of a Failure body
ExtractFailure_HttpStatusWins(res, rawText, parsedJson) ==
  LET status == res.status
      details == Obj("url" :> Str(res.url) @@ "statusText" :> Str(res.statusText))
      ctype == ContentTypeOf(res)
      json == parsedJson.val
      msg == Trim(rawText)
  IN IF Includes(ctype, "application/json") /\ parsedJson.ok
     THEN IF LooksLikeApiResponse(json)
          THEN IF Get(json, "success") = Bool(FALSE)
               THEN Obj(("statusCode" :> Num(status)) @@ json.o)
               ELSE Failure(status, "HTTP_ERROR_WITH_SUCCESS_BODY",
                            Str("HTTP failed but body indicates success"),
                            Obj("body" :> json @@ details.o))
          ELSE Failure(status, "UPSTREAM_JSON_ERROR",
                       OrElse(OptGet(OptGet(json, "error"), "message"),
                              OrElse(OptGet(json, "message"), Str("Upstream JSON error"))),
                       Obj("body" :> json @@ details.o))
     ELSE Failure(status, "UPSTREAM_TEXT_ERROR",
                  IF msg # "" THEN Str(Slice(msg, TextMessageLen)) ELSE Str("Upstream error"),
                  details)

\* extractFailureFromHttpError(error), after res.clone().text() has settled
\* and left rawText, with parsedJson the outcome of JSON.parse(rawText)
ExtractFailure(res, rawText, parsedJson) ==
  LET status == res.status
      details == Obj("url" :> Str(res.url) @@ "statusText" :> Str(res.statusText))
      ctype == ContentTypeOf(res)
      json == parsedJson.val
      msg == Trim(rawText)
  IN IF Includes(ctype, "application/json") /\ parsedJson.ok
     THEN IF LooksLikeApiResponse(json)
          THEN IF Get(json, "success") = Bool(FALSE)
               THEN json
               ELSE Failure(status, "HTTP_ERROR_WITH_SUCCESS_BODY",
                            Str("HTTP failed but body indicates success"),
                            Obj("body" :> json @@ details.o))
          ELSE Failure(status, "UPSTREAM_JSON_ERROR",
                       OrElse(OptGet(OptGet(json, "error"), "message"),
                              OrElse(OptGet(json, "message"), Str("Upstream JSON error"))),
                       Obj("body" :> json @@ details.o))
     ELSE Failure(status, "UPSTREAM_TEXT_ERROR",
                  IF msg # "" THEN Str(Slice(msg, TextMessageLen)) ELSE Str("Upstream error"),
                  details)

\* extractFailureFromHttpError(error)
ExtractFailureFromHttpError(error) ==
  LET rawText == RawTextOf(error.response)
  IN IF rawText.threw THEN rawText
     ELSE Returned(ExtractFailure(error.response, rawText.val, JSONparse(rawText.val)))

\* the unknown branch with the generic message for every value
UnknownFailure_GenericMessage(error) ==
  Failure(0, "UNKNOWN_ERROR", Str("Unknown error"), error)

\* toApiErrorAsync(error), the branch taken for everything but an HTTPError
UnknownFailure(error) ==
  Failure(0, "UNKNOWN_ERROR",
          IF InstanceofError(error) THEN Get(error, "message") ELSE Str("Unknown error"),
          error)

\* new ApiError(failure), unless the await of failure rejected
ApiErrorOf(failure) ==
  IF failure.threw THEN failure ELSE Returned(ApiError(failure.val))

\* toApiErrorAsync(error)
ToApiErrorAsync(error) ==
  IF IsHTTPError(error)
  THEN ApiErrorOf(ExtractFailureFromHttpError(error))
  ELSE Returned(ApiError(UnknownFailure(error)))

(***************************************************************************)
(* src/lib/ky-client.ts, the request client                                *)
(***************************************************************************)
\* the explicit bodies withBody sends as the literal wire body
LiteralBodyKinds ==
  {"FormData", "Blob", "ArrayBuffer", "TypedArray", "URLSearchParams", "str"}

\* { ...next } without the keys in gone
WithoutKeys(o, gone) == [k \in (DOMAIN o) \ gone |-> o[k]]

\* withBody without the test for strings
withBody_StringAsJson(options, body) ==
  LET next == IF Truthy(options) THEN options ELSE Undefined
      cleaned == IF next = Undefined THEN <<>> ELSE WithoutKeys(next.o, {"json", "body"})
  IN IF body # Undefined
     THEN IF body.t \in LiteralBodyKinds \ {"str"}
          THEN Obj(("body" :> body) @@ cleaned)
          ELSE Obj(("json" :> body) @@ cleaned)
     ELSE next

\* withBody testing if (body) in place of if (body !== undefined)
withBody_TruthyBody(options, body) ==
  LET next == IF Truthy(options) THEN options ELSE Undefined
      cleaned == IF next = Undefined THEN <<>> ELSE WithoutKeys(next.o, {"json", "body"})
  IN IF Truthy(body)
     THEN IF body.t \in LiteralBodyKinds
          THEN Obj(("body" :> body) @@ cleaned)
          ELSE Obj(("json" :> body) @@ cleaned)
     ELSE next

\* withBody(options, body)
withBody(options, body) ==
  LET next == IF Truthy(options) THEN options ELSE Undefined
      cleaned == IF next = Undefined THEN <<>> ELSE WithoutKeys(next.o, {"json", "body"})
  IN IF body # Undefined
     THEN IF body.t \in LiteralBodyKinds
          THEN Obj(("body" :> body) @@ cleaned)
          ELSE Obj(("json" :> body) @@ cleaned)
     ELSE next

\* withBody(options, body) of src/unnamed/part_005: the options are spread as
\* they came
withBody_part_005(options, body) ==
  IF body = Undefined THEN options
  ELSE LET spread == IF IsNullish(options) THEN <<>> ELSE options.o
       IN IF body.t \in LiteralBodyKinds
          THEN Obj(("body" :> body) @@ spread)
          ELSE Obj(("json" :> body) @@ spread)

\* the caller's object after a withBody that deletes json and body from the
\* object it was given
OptionsAfterWithBody_InPlace(options, body) ==
  IF body # Undefined /\ Truthy(options)
  THEN Obj(WithoutKeys(options.o, {"json", "body"}))
  ELSE options

\* the object the caller passed as options once withBody has returned: next
\* is a copy ({ ...options }), the deletes and the spreads work on next
OptionsAfterWithBody(options, body) == options

\* the withBody of the client module in use
WithBodyOf(module, options, body) ==
  IF module = "src/unnamed/part_005"
  THEN withBody_part_005(options, body)
  ELSE withBody(options, body)

\* 기본옵션.throwHttpErrors, overridden by the options of the call
ThrowHttpErrors(kyOpts) ==
  IF kyOpts # Undefined /\ HasKey(kyOpts, "throwHttpErrors")
  THEN Truthy(Get(kyOpts, "throwHttpErrors"))
  ELSE TRUE

\* the HTTPError ky throws for a response that is not ok
HTTPError(response) ==
  [t |-> "HTTPError",
   name |-> Str("HTTPError"),
   message |-> Str("Request failed with status code " \o ToString(response.status)),
   response |-> response]

(***************************************************************************)
(* The inputs: what callers pass and what endpoints answer                 *)
(***************************************************************************)
\* length of the long plain-text bodies, beyond both excerpt lengths
LongLen == 510

Urls == {"api/test"}

OptionChoices == {Undefined, EmptyObj, Obj("throwHttpErrors" :> Bool(FALSE))}

RequestDatas == {Undefined, Obj("name" :> Str("jin"))}

Statuses == {200, 204, 404, 500}

StatusText(status) ==
  CASE status = 200 -> "OK"
    [] status = 204 -> "No Content"
    [] status = 404 -> "Not Found"
    [] status = 500 -> "Internal Server Error"

ContentTypes == {Str("application/json; charset=utf-8"), Str("text/html"), Null}

\* Success envelopes a route handler may serve
SuccessEnvelopes ==
  { Obj("success" :> Bool(TRUE) @@ "data" :> Obj("id" :> Str("1"))),
    Obj("success" :> Bool(TRUE) @@ "data" :> Arr(<<Num(1), Num(2)>>)
        @@ "meta" :> Obj("page" :> Num(1)) @@ "message" :> Str("ok")
        @@ "statusCode" :> Num(200) @@ "correlationId" :> Str("c-1")),
    Obj("success" :> Bool(TRUE) @@ "data" :> Null),
    Obj("success" :> Bool(TRUE) @@ "data" :> Str("created") @@ "statusCode" :> Num(201)),
    Obj("success" :> Bool(TRUE) @@ "data" :> Num(0)) }

\* well-formed Failure envelopes a route handler may serve
FailureEnvelopes ==
  { Obj("success" :> Bool(FALSE) @@ "statusCode" :> Num(400)
        @@ "error" :> Obj("code" :> Str("VALIDATION_FAILED")
                          @@ "message" :> Str("Invalid input")
                          @@ "fields" :> Obj("name" :> Arr(<<Str("required")>>)))
        @@ "correlationId" :> Str("c-2")),
    Obj("success" :> Bool(FALSE) @@ "statusCode" :> Num(500)
        @@ "error" :> Obj("code" :> Str("PROFILES_FETCH_ERROR")
                          @@ "message" :> Str("db down"))),
    Obj("success" :> Bool(FALSE) @@ "statusCode" :> Num(404)
        @@ "message" :> Str("Not found")
        @@ "error" :> Obj("code" :> Str("NOT_FOUND")
                          @@ "message" :> Str("No such profile")
                          @@ "details" :> Obj("id" :> Str("9")))) }

\* JSON that is not a well-formed envelope
OtherJsonValues ==
  { Null, Num(5), Str("plain"), Arr(<<Num(1)>>), EmptyObj,
    Obj("message" :> Str("gateway says no")),
    Obj("error" :> Obj("message" :> Str("upstream broke"))),
    Obj("success" :> Str("yes")),
    Obj("success" :> Bool(TRUE)),
    Obj("success" :> Bool(FALSE)),
    Obj("success" :> Null @@ "data" :> Num(1)),
    Obj("error" :> Obj("message" :> Str("")) @@ "message" :> Str("outer")),
    Obj("error" :> Str("denied") @@ "message" :> Str("")),
    Obj("message" :> Num(5)) }

\* non-empty texts JSON.parse rejects
NonJsonTexts ==
  { " ", "<html>Internal Error</html>", "{", "nul",
    "{\"success\":true,\"data\":1} x",
    "{\"success\":true,\"data\":01}",
    " \n<p>Bad Gateway</p>\t ",
    Repeat("x", LongLen),
    "{\"success\":true,\"data\":\"" \o Repeat("y", LongLen) }

\* JSON surrounded by whitespace, which JSON.parse accepts
PaddedJsonTexts == { " {\"success\" : true , \"data\" : [ ] }\n" }

BodyTexts ==
  {Stringify(v) : v \in SuccessEnvelopes \cup FailureEnvelopes \cup OtherJsonValues}
    \cup NonJsonTexts \cup PaddedJsonTexts \cup {""}

Response(status, ctype, text, url, readable) ==
  [t |-> "Response", status |-> status, statusText |-> StatusText(status),
   url |-> url, contentType |-> ctype, text |-> text, readable |-> readable,
   bodyUsed |-> FALSE]

\* what an endpoint can answer to a request for url; a body stream that
\* breaks while it is read is drawn for one JSON and one empty body
Answers(url) ==
  {Response(s, c, x, url, TRUE) : s \in Statuses, c \in ContentTypes, x \in BodyTexts}
    \cup {Response(s, Str("application/json; charset=utf-8"), x, url, FALSE) :
            s \in {200, 500}, x \in {"", "{\"success\":true,\"data\":1}"}}

\* what the transport throws when there is no response: a failed fetch, the
\* timeout of 기본옵션.timeout, and values a hook may throw that are no Error
TransportFailures ==
  { ErrorValue("TypeError", "fetch failed"),
    ErrorValue("TimeoutError", "Request timed out"),
    Str("boom"), Undefined, Null, Obj("code" :> Num(1)),
    ErrorValue("HTTPError", "not from ky"),
    Obj("response" :> Null @@ "name" :> Str("AxiosError")) }

(***************************************************************************)
(* The state: one call of the request client at a time                     *)
(***************************************************************************)
VARIABLES
  pc,          \* where the call stands
  verb,        \* the method of http that was called
  options,     \* the caller's per-call options
  requestData, \* the caller's explicit body (write verbs)
  kyOptions,   \* the options handed to the transport
  res,         \* const res = await ky클라이언트.<verb>(...)
  parsed,      \* const parsed = await parseApiResponse(res)
  caught,      \* the e of catch (e)
  result,      \* the value the call returned
  thrown       \* the value the call threw

\* the state of one call of the request client
callVars == <<pc, verb, options, requestData, kyOptions, res, parsed, caught, result, thrown>>

(***************************************************************************)
(* The state around the calls: the environment the client module is loaded *)
(* in, and a caller that holds an HTTPError of the transport itself        *)
(***************************************************************************)
VARIABLES
  env,         \* process.env, the variables the client reads
  isServer,    \* typeof window === "undefined"
  prefixUrl,   \* 기본옵션.prefixUrl, undefined until the module is loaded
  clientModule,\* the source file of the request client in use
  nError,      \* the HTTPError a caller of toApiErrorAsync holds
  nResults,    \* what its calls of toApiErrorAsync resolved to, in order
  nCallerText  \* what the caller's own read of the error body settled with

moduleVars == <<env, isServer, prefixUrl, clientModule>>
normalizerVars == <<nError, nResults, nCallerText>>

(***************************************************************************)
(* The state of the other parts of the application: calls in flight at the *)
(* same time, a helper function applied on its own, the handlers of the    *)
(* admin login, the dev log bus                                            *)
(***************************************************************************)
VARIABLES
  calls,          \* the locals of every call of http in flight, by call
  baseOptions,    \* 기본옵션, shared by every call
  fnName,         \* the helper applied
  fnInput,        \* its arguments
  fnOutput,       \* what it returned or threw
  authPc,         \* where the handler of the request stands
  authReq,        \* the request: its handler, path and query
  providerSession,\* the session the identity provider holds for the browser
  authSession,    \* const { data: { session } } of the handler
  authResponse,   \* the response of the handler
  nodeEnv,        \* process.env.NODE_ENV
  clients,        \* const clients = new Set<Client>()
  streams,        \* every SSE request: its signal and its controller
  sendLog,        \* the calls of send made by the last pushDevLog, by client
  pushOutcome     \* how the last pushDevLog ended

concurrentVars == <<calls, baseOptions>>
helperVars == <<fnName, fnInput, fnOutput>>
authVars == <<authPc, authReq, providerSession, authSession, authResponse>>
busVars == <<nodeEnv, clients, streams, sendLog, pushOutcome>>

\* the state of those other parts
elsewhereVars == <<concurrentVars, helperVars, authVars, busVars>>

\* everything but the state of the call
outsideCall == <<moduleVars, normalizerVars, elsewhereVars>>

vars == <<callVars, moduleVars, normalizerVars, elsewhereVars>>

\* the variables the client reads, in the order of their priority
EnvNames ==
  <<"NEXT_PUBLIC_API_ORIGIN", "NEXT_PUBLIC_API_BASE_URL", "NEXT_PUBLIC_SITE_URL",
    "NEXT_PUBLIC_SUPABASE_URL", "VERCEL_URL">>

\* const envBase = A || B || C || D || (VERCEL_URL ? `https://${VERCEL_URL}` : undefined)
EnvBase(e) ==
  OrElse(e["NEXT_PUBLIC_API_ORIGIN"],
    OrElse(e["NEXT_PUBLIC_API_BASE_URL"],
      OrElse(e["NEXT_PUBLIC_SITE_URL"],
        OrElse(e["NEXT_PUBLIC_SUPABASE_URL"],
               IF Truthy(e["VERCEL_URL"])
               THEN Str("https://" \o e["VERCEL_URL"].s)
               ELSE Undefined))))

\* resolvedPrefixUrl without the default of the server
ResolvedPrefixUrl_NoServerDefault(server, e) == Coalesce(EnvBase(e), Str(""))

\* const resolvedPrefixUrl = isServer ? envBase ?? "http://localhost:3000" : envBase ?? ""
ResolvedPrefixUrl(server, e) ==
  IF server
  THEN Coalesce(EnvBase(e), Str("http://localhost:3000"))
  ELSE Coalesce(EnvBase(e), Str(""))

\* no variable set
NoEnv == [n \in {EnvNames[i] : i \in 1..Len(EnvNames)} |-> Undefined]

\* no caller's read of an error body has settled
NoRead == [t |-> "none"]

\* no call of the request client made yet
NoCall ==
  /\ pc = "idle"
  /\ verb = "none"
  /\ options = Undefined
  /\ requestData = Undefined
  /\ kyOptions = Undefined
  /\ res = NoResponse
  /\ parsed = Undefined
  /\ caught = Undefined
  /\ result = Undefined
  /\ thrown = Undefined

\* the client module loaded in a browser without any of the variables
ModuleLoaded ==
  /\ clientModule = "src/lib/ky-client.ts"
  /\ env = NoEnv
  /\ isServer = FALSE
  /\ prefixUrl = ResolvedPrefixUrl(FALSE, NoEnv)

\* nobody holds an HTTPError of the transport
NoNormalizerCaller ==
  /\ nError = Undefined
  /\ nResults = <<>>
  /\ nCallerText = NoRead

\* 기본옵션 of src/lib/ky-client.ts
DefaultOptions(prefix) ==
  Obj("prefixUrl" :> prefix
      @@ "timeout" :> Num(10000)
      @@ "throwHttpErrors" :> Bool(TRUE)
      @@ "headers" :> EmptyObj)

\* no helper is applied
NotApplied == [t |-> "none"]

\* no calls in flight together
NoConcurrentCalls ==
  /\ calls = <<>>
  /\ baseOptions = DefaultOptions(ResolvedPrefixUrl(FALSE, NoEnv))

NoHelper ==
  /\ fnName = "none"
  /\ fnInput = Undefined
  /\ fnOutput = NotApplied

\* no request to the handlers of the admin login
NoAuthRequest ==
  /\ authPc = "idle"
  /\ authReq = Undefined
  /\ providerSession = Null
  /\ authSession = Undefined
  /\ authResponse = Undefined

\* the dev log bus as the module leaves it when loaded in production
NoBus ==
  /\ nodeEnv = "production"
  /\ clients = {}
  /\ streams = <<>>
  /\ sendLog = <<>>
  /\ pushOutcome = NotApplied

\* nothing happens in the other parts
Elsewhere == NoConcurrentCalls /\ NoHelper /\ NoAuthRequest /\ NoBus

Init == ModuleLoaded /\ NoNormalizerCaller /\ NoCall /\ Elsewhere

Settled == pc \in {"idle", "returned", "thrown"}

\* a new call starts with fresh locals
FreshLocals ==
  /\ res' = NoResponse
  /\ parsed' = Undefined
  /\ caught' = Undefined
  /\ result' = Undefined
  /\ thrown' = Undefined

\* http.get(url, options) up to its first await: ky클라이언트.get(url, options)
http_get ==
  /\ Settled
  /\ pc' = "request"
  /\ verb' = "get"
  /\ \E o \in OptionChoices :
       /\ options' = o
       /\ kyOptions' = o
  /\ requestData' = Undefined
  /\ FreshLocals
  /\ UNCHANGED outsideCall

\* http.delete(url, options) up to its first await
http_delete ==
  /\ Settled
  /\ pc' = "request"
  /\ verb' = "delete"
  /\ \E o \in OptionChoices :
       /\ options' = o
       /\ kyOptions' = o
  /\ requestData' = Undefined
  /\ FreshLocals
  /\ UNCHANGED outsideCall

\* http.post(url, requestData, options) up to its first await:
\* ky클라이언트.post(url, withBody(options, requestData))
http_post ==
  /\ Settled
  /\ pc' = "request"
  /\ verb' = "post"
  /\ \E o \in OptionChoices, d \in RequestDatas :
       /\ options' = o
       /\ requestData' = d
       /\ kyOptions' = withBody(o, d)
  /\ FreshLocals
  /\ UNCHANGED outsideCall

\* http.put(url, requestData, options) up to its first await
http_put ==
  /\ Settled
  /\ pc' = "request"
  /\ verb' = "put"
  /\ \E o \in OptionChoices, d \in RequestDatas :
       /\ options' = o
       /\ requestData' = d
       /\ kyOptions' = withBody(o, d)
  /\ FreshLocals
  /\ UNCHANGED outsideCall

\* http.patch(url, requestData, options) up to its first await
http_patch ==
  /\ Settled
  /\ pc' = "request"
  /\ verb' = "patch"
  /\ \E o \in OptionChoices, d \in RequestDatas :
       /\ options' = o
       /\ requestData' = d
       /\ kyOptions' = withBody(o, d)
  /\ FreshLocals
  /\ UNCHANGED outsideCall

\* await ky클라이언트.<verb>(url, kyOptions) settles with a response: ky throws
\* an HTTPError for a response that is not ok unless throwHttpErrors is off
TransportResponds ==
  /\ pc = "request"
  /\ \E url \in Urls : \E r \in Answers(url) :
       IF ~ResponseOk(r) /\ ThrowHttpErrors(kyOptions)
       THEN /\ caught' = HTTPError(r)
            /\ pc' = "catch"
            /\ res' = res
       ELSE /\ res' = r
            /\ pc' = "text"
            /\ caught' = caught
  /\ UNCHANGED <<verb, options, requestData, kyOptions, parsed, result, thrown>>
  /\ UNCHANGED outsideCall

\* await ky클라이언트.<verb>(...) rejects without a response
TransportFails ==
  /\ pc = "request"
  /\ \E e \in TransportFailures : caught' = e
  /\ pc' = "catch"
  /\ UNCHANGED <<verb, options, requestData, kyOptions, res, parsed, result, thrown>>
  /\ UNCHANGED outsideCall

\* const parsed = await parseApiResponse(res)
ParseStep ==
  /\ pc = "text"
  /\ LET r == ParseApiResponse(res)
     IN IF r.threw
        THEN /\ caught' = r.val
             /\ pc' = "catch"
             /\ parsed' = parsed
        ELSE /\ parsed' = r.val
             /\ pc' = "parsed"
             /\ caught' = caught
  /\ res' = Consumed(res)
  /\ UNCHANGED <<verb, options, requestData, kyOptions, result, thrown>>
  /\ UNCHANGED outsideCall

\* return ensureOk(parsed)
EnsureOkStep ==
  /\ pc = "parsed"
  /\ LET r == EnsureOk(parsed)
     IN IF r.threw
        THEN /\ caught' = r.val
             /\ pc' = "catch"
             /\ result' = result
        ELSE /\ result' = r.val
             /\ pc' = "returned"
             /\ caught' = caught
  /\ UNCHANGED <<verb, options, requestData, kyOptions, res, parsed, thrown>>
  /\ UNCHANGED outsideCall

\* a catch block that asks the transport again instead of normalizing
CatchStep_Retry ==
  /\ pc = "catch"
  /\ pc' = "request"
  /\ UNCHANGED <<verb, options, requestData, kyOptions, res, parsed, caught, result, thrown>>
  /\ UNCHANGED outsideCall

\* catch (e) { throw await toApiErrorAsync(e) }: the call throws the ApiError
\* toApiErrorAsync resolves to, or whatever toApiErrorAsync itself throws.  An
\* HTTPError first waits for the text of the cloned response.
CatchStep ==
  /\ pc = "catch"
  /\ IF IsHTTPError(caught)
     THEN /\ pc' = "clone_text"
          /\ thrown' = thrown
     ELSE /\ thrown' = ToApiErrorAsync(caught).val
          /\ pc' = "thrown"
  /\ UNCHANGED <<verb, options, requestData, kyOptions, res, parsed, caught, result>>
  /\ UNCHANGED outsideCall

\* toApiErrorAsync resumes after await res.clone().text()
ExtractStep ==
  /\ pc = "clone_text"
  /\ thrown' = ToApiErrorAsync(caught).val
  /\ pc' = "thrown"
  /\ UNCHANGED <<verb, options, requestData, kyOptions, res, parsed, caught, result>>
  /\ UNCHANGED outsideCall

Next ==
  \/ http_get
  \/ http_delete
  \/ http_post
  \/ http_put
  \/ http_patch
  \/ TransportResponds
  \/ TransportFails
  \/ ParseStep
  \/ EnsureOkStep
  \/ CatchStep
  \/ ExtractStep

Spec == Init /\ [][Next]_vars

(***************************************************************************)
(* A caller that uses ky itself, holds the HTTPError ky threw and calls     *)
(* toApiErrorAsync on it, and may read the body of error.response itself   *)
(***************************************************************************)
\* calls of toApiErrorAsync the caller makes on the error it holds
MaxNormalize == 2

\* the HTTPErrors ky throws: one for every answer that is not ok
ThrownHttpErrors ==
  {HTTPError(r) : r \in {a \in UNION {Answers(url) : url \in Urls} : ~ResponseOk(a)}}

NormalizeInit ==
  /\ Elsewhere
  /\ ModuleLoaded
  /\ NoCall
  /\ nError \in ThrownHttpErrors
  /\ nResults = <<>>
  /\ nCallerText = NoRead

\* await toApiErrorAsync(nError): what it resolves to, and error.response as
\* the read of the raw text leaves it
Normalize ==
  /\ Len(nResults) < MaxNormalize
  /\ nResults' = Append(nResults, [callerHadRead |-> nCallerText # NoRead,
                                    outcome |-> ToApiErrorAsync(nError)])
  /\ nError' = [nError EXCEPT !.response = ReadRawText(nError.response).response]
  /\ UNCHANGED <<nCallerText, callVars, moduleVars, elsewhereVars>>

\* await nError.response.text(), by the caller
CallerReadsBody ==
  /\ nCallerText = NoRead
  /\ nCallerText' = ResponseText(nError.response)
  /\ nError' = [nError EXCEPT !.response = Consumed(nError.response)]
  /\ UNCHANGED <<nResults, callVars, moduleVars, elsewhereVars>>

NormalizeNext ==
  \/ Normalize
  \/ CallerReadsBody

NormalizeSpec == NormalizeInit /\ [][NormalizeNext]_vars

(***************************************************************************)
(* withBody, applied by the write verbs to every kind of explicit body     *)
(***************************************************************************)
\* a value of a platform class, told apart by instanceof
Platform(kind) == [t |-> kind, id |-> 1]

\* explicit bodies a caller may pass
BodyDatas ==
  { Undefined, Null, Num(0), Num(7), Bool(FALSE), Bool(TRUE), Str(""), Str("a=1&b=2"),
    Arr(<<Num(1), Str("x")>>), EmptyObj, Obj("name" :> Str("jin")),
    Obj("body" :> Str("inner") @@ "json" :> Num(1)),
    Platform("FormData"), Platform("Blob"), Platform("ArrayBuffer"),
    Platform("TypedArray"), Platform("URLSearchParams") }

\* override configurations a caller may pass, with and without json and body
BodyOptions ==
  { Undefined, Null, EmptyObj,
    Obj("timeout" :> Num(5000)),
    Obj("json" :> Obj("stale" :> Bool(TRUE))),
    Obj("body" :> Str("stale")),
    Obj("json" :> Obj("stale" :> Bool(TRUE)) @@ "headers" :> Obj("x-trace" :> Str("1"))),
    Obj("json" :> Undefined @@ "body" :> Platform("FormData") @@ "timeout" :> Num(5000)),
    Obj("json" :> Arr(<<>>) @@ "body" :> Str("stale") @@ "throwHttpErrors" :> Bool(FALSE)) }

\* the files that hold a request client whose withBody differs
ClientModules == {"src/lib/ky-client.ts", "src/unnamed/part_005"}

BodyInit ==
  /\ Elsewhere
  /\ clientModule \in ClientModules
  /\ env = NoEnv
  /\ isServer = FALSE
  /\ prefixUrl = ResolvedPrefixUrl(FALSE, NoEnv)
  /\ NoNormalizerCaller
  /\ pc = "idle"
  /\ verb = "none"
  /\ options \in BodyOptions
  /\ requestData \in BodyDatas
  /\ kyOptions = Undefined
  /\ res = NoResponse
  /\ parsed = Undefined
  /\ caught = Undefined
  /\ result = Undefined
  /\ thrown = Undefined

\* http.post(url, requestData, options) up to ky클라이언트.post(url, withBody(...))
post_withBody ==
  /\ pc = "idle"
  /\ pc' = "request"
  /\ verb' = "post"
  /\ kyOptions' = WithBodyOf(clientModule, options, requestData)
  /\ options' = OptionsAfterWithBody(options, requestData)
  /\ UNCHANGED <<requestData, res, parsed, caught, result, thrown>>
  /\ UNCHANGED outsideCall

\* http.put(url, requestData, options) up to ky클라이언트.put(url, withBody(...))
put_withBody ==
  /\ pc = "idle"
  /\ pc' = "request"
  /\ verb' = "put"
  /\ kyOptions' = WithBodyOf(clientModule, options, requestData)
  /\ options' = OptionsAfterWithBody(options, requestData)
  /\ UNCHANGED <<requestData, res, parsed, caught, result, thrown>>
  /\ UNCHANGED outsideCall

\* http.patch(url, requestData, options) up to ky클라이언트.patch(url, withBody(...))
patch_withBody ==
  /\ pc = "idle"
  /\ pc' = "request"
  /\ verb' = "patch"
  /\ kyOptions' = WithBodyOf(clientModule, options, requestData)
  /\ options' = OptionsAfterWithBody(options, requestData)
  /\ UNCHANGED <<requestData, res, parsed, caught, result, thrown>>
  /\ UNCHANGED outsideCall

BodyNext ==
  \/ post_withBody
  \/ put_withBody
  \/ patch_withBody

BodySpec == BodyInit /\ [][BodyNext]_vars

(***************************************************************************)
(* The load of the client module in every environment                      *)
(***************************************************************************)
\* a value set for each variable
EnvSample ==
  "NEXT_PUBLIC_API_ORIGIN" :> Str("https://api.example.com")
  @@ "NEXT_PUBLIC_API_BASE_URL" :> Str("https://base.example.com/v1")
  @@ "NEXT_PUBLIC_SITE_URL" :> Str("https://site.example.com")
  @@ "NEXT_PUBLIC_SUPABASE_URL" :> Str("https://abc.supabase.co")
  @@ "VERCEL_URL" :> Str("blog-git-main.vercel.app")

\* every variable is unset, empty or set
Environments ==
  {e \in [DOMAIN EnvSample -> {Undefined, Str("")} \cup {EnvSample[n] : n \in DOMAIN EnvSample}] :
     \A n \in DOMAIN EnvSample : e[n] \in {Undefined, Str(""), EnvSample[n]}}

EnvInit ==
  /\ Elsewhere
  /\ clientModule = "src/lib/ky-client.ts"
  /\ NoCall
  /\ NoNormalizerCaller
  /\ env \in Environments
  /\ isServer \in BOOLEAN
  /\ prefixUrl = Undefined

\* the top level of the client module runs: 기본옵션.prefixUrl is set
LoadClientModule ==
  /\ prefixUrl = Undefined
  /\ prefixUrl' = ResolvedPrefixUrl(isServer, env)
  /\ UNCHANGED <<env, isServer, clientModule, callVars, normalizerVars, elsewhereVars>>

EnvNext == LoadClientModule

EnvSpec == EnvInit /\ [][EnvNext]_vars

(***************************************************************************)
(* ensureOk and unwrap applied by a caller to an envelope it holds         *)
(***************************************************************************)
\* the error member of a failure
ErrorMembers ==
  { Undefined, Null,
    Obj("code" :> Str("NOT_FOUND")),
    Obj("code" :> Str("EMPTY") @@ "message" :> Str("")),
    Obj("code" :> Str("VALIDATION_FAILED") @@ "message" :> Str("Invalid input")
        @@ "details" :> Obj("id" :> Str("9"))
        @@ "fields" :> Obj("name" :> Arr(<<Str("required")>>))) }

\* failures with every combination of the members ApiError reads
FailureShapes ==
  { Obj("success" :> Bool(FALSE) @@ "error" :> e @@ "message" :> m
        @@ "statusCode" :> sc @@ "correlationId" :> cid) :
      e \in ErrorMembers,
      m \in {Undefined, Null, Str("Not found")},
      sc \in {Undefined, Num(404)},
      cid \in {Undefined, Str("c-2")} }

\* the ApiResponse values a caller holds
HeldResponses ==
  SuccessEnvelopes \cup FailureEnvelopes \cup FailureShapes
    \cup { Obj("success" :> Str("yes") @@ "data" :> Num(1)),
           Obj("data" :> Num(1)) }

EnvelopeInit ==
  /\ ModuleLoaded
  /\ NoNormalizerCaller
  /\ NoCall
  /\ NoConcurrentCalls
  /\ NoAuthRequest
  /\ NoBus
  /\ fnName = "none"
  /\ fnInput \in HeldResponses
  /\ fnOutput = NotApplied

\* ensureOk(response)
Apply_ensureOk ==
  /\ fnName = "none"
  /\ fnName' = "ensureOk"
  /\ fnOutput' = EnsureOk(fnInput)
  /\ UNCHANGED <<fnInput, callVars, moduleVars, normalizerVars, concurrentVars, authVars, busVars>>

\* unwrap(response)
Apply_unwrap ==
  /\ fnName = "none"
  /\ fnName' = "unwrap"
  /\ fnOutput' = Unwrap(fnInput)
  /\ UNCHANGED <<fnInput, callVars, moduleVars, normalizerVars, concurrentVars, authVars, busVars>>

EnvelopeNext ==
  \/ Apply_ensureOk
  \/ Apply_unwrap

EnvelopeSpec == EnvelopeInit /\ [][EnvelopeNext]_vars

(***************************************************************************)
(* src/lib/api-response.ts, the client variant that merges the query       *)
(* argument of http.get into options.searchParams                          *)
(***************************************************************************)
\* entries of a URLSearchParams a caller builds
MaxParams == 2

URLSearchParams(list) == [t |-> "URLSearchParams", list |-> list]

RECURSIVE SplitOn(_, _)
\* s.split(sep) for a one-character separator
SplitOn(s, sep) ==
  IF \A i \in 1..Len(s) : CharAt(s, i) # sep
  THEN <<s>>
  ELSE LET i == CHOOSE j \in 1..Len(s) :
                  CharAt(s, j) = sep /\ \A m \in 1..(j - 1) : CharAt(s, m) # sep
       IN <<SubSeq(s, 1, i - 1)>> \o SplitOn(SubSeq(s, i + 1, Len(s)), sep)

\* the name/value pair of one piece of a query string
PairOf(piece) ==
  IF \A i \in 1..Len(piece) : CharAt(piece, i) # "="
  THEN <<piece, "">>
  ELSE LET i == CHOOSE j \in 1..Len(piece) :
                  CharAt(piece, j) = "=" /\ \A m \in 1..(j - 1) : CharAt(piece, m) # "="
       IN <<SubSeq(piece, 1, i - 1), SubSeq(piece, i + 1, Len(piece))>>

RECURSIVE PairsOf(_)
\* the pairs of the non-empty pieces
PairsOf(pieces) ==
  IF pieces = <<>> THEN <<>>
  ELSE IF Head(pieces) = "" THEN PairsOf(Tail(pieces))
  ELSE <<PairOf(Head(pieces))>> \o PairsOf(Tail(pieces))

\* new URLSearchParams(text): a leading "?" is dropped
ParseQuery(text) ==
  IF Len(text) > 0 /\ CharAt(text, 1) = "?"
  THEN PairsOf(SplitOn(SubSeq(text, 2, Len(text)), "&"))
  ELSE PairsOf(SplitOn(text, "&"))

RECURSIVE RecordPairs(_, _)
\* new URLSearchParams(record): one pair per own key, values as strings
RecordPairs(o, keys) ==
  IF keys = {} THEN <<>>
  ELSE LET k == CHOOSE x \in keys : TRUE
       IN <<<<k, JSToString(o[k])>>>> \o RecordPairs(o, keys \ {k})

\* toURLSearchParams(value)
ToURLSearchParams(value) ==
  IF ~Truthy(value) THEN Undefined
  ELSE IF value.t = "URLSearchParams" THEN value
  ELSE IF value.t = "arr"
  THEN URLSearchParams([i \in 1..Len(value.a) |->
                          <<JSToString(value.a[i].a[1]), JSToString(value.a[i].a[2])>>])
  ELSE IF value.t = "str" THEN URLSearchParams(ParseQuery(value.s))
  ELSE URLSearchParams(RecordPairs(value.o, DOMAIN value.o))

\* params.has(name)
HasParam(list, name) == \E i \in 1..Len(list) : list[i][1] = name

\* params.delete(name): every pair of that name goes
DeleteParam(list, name) ==
  LET Other(p) == p[1] # name IN SelectSeq(list, Other)

RECURSIVE MergeLoop(_, _, _)
\* for (const [k] of a.entries()) { if (b.has(k)) a.delete(k) }: the iterator
\* keeps an index into the live list of a, so the pair it visits next is the
\* one at the following index of the list as the body left it
MergeLoop(a, b, index) ==
  IF index > Len(a) THEN a
  ELSE IF HasParam(b, a[index][1])
  THEN MergeLoop(DeleteParam(a, a[index][1]), b, index + 1)
  ELSE MergeLoop(a, b, index + 1)

\* mergeSearchParams(base, override) once both are normalized: a, b
MergeNormalized(a, b) ==
  IF b = Undefined THEN a
  ELSE URLSearchParams(MergeLoop(a.list, b.list, 1) \o b.list)

\* mergeSearchParams(base, override)
MergeSearchParams(base, override) ==
  IF ~Truthy(base) /\ ~Truthy(override) THEN Undefined
  ELSE MergeNormalized(Coalesce(ToURLSearchParams(base), URLSearchParams(<<>>)),
                       ToURLSearchParams(override))

ParamKeys == {"a", "b"}

\* lists of up to MaxParams pairs with the given values
ParamLists(values) ==
  UNION { [1..n -> {<<k, v>> : k \in ParamKeys, v \in values}] : n \in 0..MaxParams }

\* options.searchParams of the caller
BaseSearchParams ==
  { Undefined, Str(""), Str("a=1&b=2"), Str("?b=2"),
    Obj("a" :> Num(1)),
    Arr(<<Arr(<<Str("a"), Str("1")>>), Arr(<<Str("b"), Num(2)>>)>>) }
    \cup { URLSearchParams(l) : l \in ParamLists({"1", "2"}) }

\* the query argument of http.get
QueryArguments ==
  { Undefined, Str(""), Str("a=9&b=8"), Str("b"),
    Obj("a" :> Num(9)), Obj("b" :> Str("8")),
    Arr(<<Arr(<<Str("b"), Str("8")>>), Arr(<<Str("a"), Str("9")>>)>>) }
    \cup { URLSearchParams(l) : l \in ParamLists({"9"}) }

MergeInit ==
  /\ ModuleLoaded
  /\ NoNormalizerCaller
  /\ NoCall
  /\ NoConcurrentCalls
  /\ NoAuthRequest
  /\ NoBus
  /\ fnName = "none"
  /\ fnInput \in [base : BaseSearchParams, override : QueryArguments]
  /\ fnOutput = NotApplied

\* http.get(url, query, options) up to the call of ky클라이언트.get:
\* searchParams: mergeSearchParams(options?.searchParams, query)
Apply_mergeSearchParams ==
  /\ fnName = "none"
  /\ fnName' = "mergeSearchParams"
  /\ fnOutput' = MergeSearchParams(fnInput.base, fnInput.override)
  /\ UNCHANGED <<fnInput, callVars, moduleVars, normalizerVars, concurrentVars, authVars, busVars>>

MergeNext == Apply_mergeSearchParams

MergeSpec == MergeInit /\ [][MergeNext]_vars

(***************************************************************************)
(* The admin login: the middleware of /admin, the admin layout, the login  *)
(* page and the OAuth callback route, one request at a time                *)
(***************************************************************************)
\* emails that have a row in profiles
ProfileEmails == {"admin@blog.dev"}

SessionOf(user) == Obj("user" :> user)

\* the sessions the identity provider can hold for the browser: none, an
\* admin, a stranger, a user without email, a user with an empty email
ProviderSessions ==
  { Null,
    SessionOf(Obj("email" :> Str("admin@blog.dev"))),
    SessionOf(Obj("email" :> Str("stranger@mail.com"))),
    SessionOf(Obj("id" :> Str("u-3"))),
    SessionOf(Obj("email" :> Str(""))) }

\* the code parameter of the callback: absent, empty, codes the provider
\* exchanges for a session, a code it rejects
CodeParams ==
  { Null, Str(""), Str("code-admin"), Str("code-stranger"), Str("code-noemail"),
    Str("code-expired") }

\* supabase.auth.exchangeCodeForSession(code): the session the provider holds
\* afterwards; a rejected code leaves what was there
SessionForCode(code, held) ==
  CASE code = Str("code-admin") -> SessionOf(Obj("email" :> Str("admin@blog.dev")))
    [] code = Str("code-stranger") -> SessionOf(Obj("email" :> Str("stranger@mail.com")))
    [] code = Str("code-noemail") -> SessionOf(Obj("id" :> Str("u-3")))
    [] OTHER -> held

\* the redirectTo parameter: absent, empty, absolute, protocol-relative, ...
RedirectParams ==
  { Null, Str(""), Str("https://evil.com/admin"), Str("//evil.com"), Str("/"),
    Str("/admin"), Str("/admin/posts?x=1"), Str("/administrator"), Str("admin"),
    Str("/Admin"), Str("/auth/login"), Str(" /admin") }

\* the paths the matcher /admin/:path* hands to the middleware
AdminPaths == {"/admin", "/admin/posts", "/admin/posts/1"}

\* a sanitizer that accepts every path of the site
SafeRedirect_AnyPath(param) ==
  IF StartsWithAt(Coalesce(param, Str("/admin")).s, 1, "/")
  THEN Coalesce(param, Str("/admin"))
  ELSE Str("/admin")

\* const redirectTo = searchParams.get("redirectTo") ?? "/admin";
\* redirectTo.startsWith("/admin") ? redirectTo : "/admin"
SafeRedirect(param) ==
  IF StartsWithAt(Coalesce(param, Str("/admin")).s, 1, "/admin")
  THEN Coalesce(param, Str("/admin"))
  ELSE Str("/admin")

\* session?.user.email
EmailOf(session) ==
  IF IsNullish(session) THEN Undefined ELSE Get(Get(session, "user"), "email")

\* fetchProfileByEmailServer(email) when the query succeeds: data ?? null
FetchProfileByEmail(email) ==
  IF email.s \in ProfileEmails
  THEN Obj("id" :> Str("p-1") @@ "email" :> email)
  ELSE Null

\* NextResponse.redirect(url)
Redirect(location, error, redirectTo) ==
  [kind |-> "redirect", location |-> location, error |-> error, redirectTo |-> redirectTo]

\* the redirect to the login page of the two failure branches of the callback
Unauthorized(safeRedirect) ==
  Redirect(Str("/auth/login"), Str("unauthorized"), safeRedirect)

\* a callback that does not look at the profile it fetched
AfterProfileCheck_Skipped(profile) == "redirect"

\* if (!checkProfileByEmail) { signOut ... } else redirect
AfterProfileCheck(profile) == IF ~Truthy(profile) THEN "signOut" ELSE "redirect"

\* a middleware that sends everybody to the admin root after the login
MiddlewareResponse_FixedTarget(session, pathname) ==
  IF ~Truthy(session)
  THEN Redirect(Str("/auth/login"), Null, Str("/admin"))
  ELSE [kind |-> "next", location |-> Null, error |-> Null, redirectTo |-> Null]

\* middleware(request) after the session lookup
MiddlewareResponse(session, pathname) ==
  IF ~Truthy(session)
  THEN Redirect(Str("/auth/login"), Null, Str(pathname))
  ELSE [kind |-> "next", location |-> Null, error |-> Null, redirectTo |-> Null]

\* no handler is running
AuthSettled == authPc \in {"idle", "done"}

AuthInit ==
  /\ ModuleLoaded
  /\ NoNormalizerCaller
  /\ NoCall
  /\ NoConcurrentCalls
  /\ NoHelper
  /\ NoBus
  /\ authPc = "idle"
  /\ authReq = Undefined
  /\ providerSession \in ProviderSessions
  /\ authSession = Undefined
  /\ authResponse = Undefined

\* GET /api/auth/callback of (admin)/admin/layout.tsx up to its first await
GET_callback ==
  /\ AuthSettled
  /\ \E code \in CodeParams, r \in RedirectParams :
       /\ authReq' = [handler |-> "callback", code |-> code, redirectTo |-> r,
                      pathname |-> "/api/auth/callback"]
       /\ authPc' = IF Truthy(code) THEN "exchange" ELSE "getSession"
  /\ authSession' = Undefined
  /\ authResponse' = Undefined
  /\ UNCHANGED <<providerSession, callVars, moduleVars, normalizerVars, concurrentVars, helperVars, busVars>>

\* GET /api/auth/callback of app/api/auth/callback/route.ts up to its first
\* await
GET_callback_route ==
  /\ AuthSettled
  /\ \E code \in CodeParams, r \in RedirectParams :
       /\ authReq' = [handler |-> "callback_route", code |-> code, redirectTo |-> r,
                      pathname |-> "/api/auth/callback"]
       /\ authPc' = IF Truthy(code) THEN "exchange" ELSE "respond"
  /\ authSession' = Undefined
  /\ authResponse' = Undefined
  /\ UNCHANGED <<providerSession, callVars, moduleVars, normalizerVars, concurrentVars, helperVars, busVars>>

\* await supabase.auth.exchangeCodeForSession(code)
ExchangeCode ==
  /\ authPc = "exchange"
  /\ providerSession' = SessionForCode(authReq.code, providerSession)
  /\ authPc' = IF authReq.handler = "callback" THEN "getSession" ELSE "respond"
  /\ UNCHANGED <<authReq, authSession, authResponse, callVars, moduleVars, normalizerVars, concurrentVars, helperVars, busVars>>

\* route.ts: return NextResponse.redirect(new URL(safeRedirect, req.url))
RouteRedirect ==
  /\ authPc = "respond"
  /\ authResponse' = Redirect(SafeRedirect(authReq.redirectTo), Null, Null)
  /\ authPc' = "done"
  /\ UNCHANGED <<authReq, providerSession, authSession, callVars, moduleVars, normalizerVars, concurrentVars, helperVars, busVars>>

\* middleware(request) up to its await
middleware ==
  /\ AuthSettled
  /\ \E path \in AdminPaths :
       authReq' = [handler |-> "middleware", code |-> Null, redirectTo |-> Null,
                   pathname |-> path]
  /\ authPc' = "getSession"
  /\ authSession' = Undefined
  /\ authResponse' = Undefined
  /\ UNCHANGED <<providerSession, callVars, moduleVars, normalizerVars, concurrentVars, helperVars, busVars>>

\* AdminLayout({ children }) up to its await
AdminLayout ==
  /\ AuthSettled
  /\ \E path \in AdminPaths :
       authReq' = [handler |-> "AdminLayout", code |-> Null, redirectTo |-> Null,
                   pathname |-> path]
  /\ authPc' = "getSession"
  /\ authSession' = Undefined
  /\ authResponse' = Undefined
  /\ UNCHANGED <<providerSession, callVars, moduleVars, normalizerVars, concurrentVars, helperVars, busVars>>

\* LoginPage(): redirectPath, the target handed on to the callback
LoginPage ==
  /\ AuthSettled
  /\ \E r \in RedirectParams :
       /\ authReq' = [handler |-> "LoginPage", code |-> Null, redirectTo |-> r,
                      pathname |-> "/auth/login"]
       /\ authResponse' = [kind |-> "render", location |-> Null, error |-> Null,
                           redirectTo |-> SafeRedirect(r)]
  /\ authPc' = "done"
  /\ authSession' = Undefined
  /\ UNCHANGED <<providerSession, callVars, moduleVars, normalizerVars, concurrentVars, helperVars, busVars>>

\* const { data: { session } } = await supabase.auth.getSession() and what
\* the handler does with it up to its next await or its return
GetSession ==
  /\ authPc = "getSession"
  /\ authSession' = providerSession
  /\ CASE authReq.handler = "callback" ->
            /\ authPc' = IF ~Truthy(EmailOf(providerSession))
                         THEN "signOut" ELSE "fetchProfile"
            /\ authResponse' = authResponse
       [] authReq.handler = "middleware" ->
            /\ authPc' = "done"
            /\ authResponse' = MiddlewareResponse(providerSession, authReq.pathname)
       [] OTHER ->
            /\ authPc' = "done"
            /\ authResponse' =
                 IF ~Truthy(providerSession)
                 THEN Redirect(Str("/auth/login"), Null, Null)
                 ELSE [kind |-> "render", location |-> Null, error |-> Null,
                       redirectTo |-> Null]
  /\ UNCHANGED <<authReq, providerSession, callVars, moduleVars, normalizerVars, concurrentVars, helperVars, busVars>>

\* await fetchProfileByEmailServer(email) returns, and the callback goes on
\* to the sign-out or answers with the redirect into the admin area
FetchProfile ==
  /\ authPc = "fetchProfile"
  /\ IF AfterProfileCheck(FetchProfileByEmail(EmailOf(authSession))) = "signOut"
     THEN /\ authPc' = "signOut"
          /\ authResponse' = authResponse
     ELSE /\ authPc' = "done"
          /\ authResponse' = Redirect(SafeRedirect(authReq.redirectTo), Null, Null)
  /\ UNCHANGED <<authReq, providerSession, authSession, callVars, moduleVars, normalizerVars, concurrentVars, helperVars, busVars>>

\* await fetchProfileByEmailServer(email) throws the error of the query: the
\* handler ends with that error, nobody is redirected
FetchProfileFails ==
  /\ authPc = "fetchProfile"
  /\ authPc' = "done"
  /\ authResponse' = [kind |-> "error", location |-> Null, error |-> Str("query error"),
                      redirectTo |-> Null]
  /\ UNCHANGED <<authReq, providerSession, authSession, callVars, moduleVars, normalizerVars, concurrentVars, helperVars, busVars>>

\* await supabase.auth.signOut()
SignOut ==
  /\ authPc = "signOut"
  /\ providerSession' = Null
  /\ authPc' = "unauthorized"
  /\ UNCHANGED <<authReq, authSession, authResponse, callVars, moduleVars, normalizerVars, concurrentVars, helperVars, busVars>>

\* return NextResponse.redirect(loginUrl) with error and redirectTo set
RespondUnauthorized ==
  /\ authPc = "unauthorized"
  /\ authResponse' = Unauthorized(SafeRedirect(authReq.redirectTo))
  /\ authPc' = "done"
  /\ UNCHANGED <<authReq, providerSession, authSession, callVars, moduleVars, normalizerVars, concurrentVars, helperVars, busVars>>

AuthNext ==
  \/ GET_callback
  \/ GET_callback_route
  \/ ExchangeCode
  \/ RouteRedirect
  \/ middleware
  \/ AdminLayout
  \/ LoginPage
  \/ GetSession
  \/ FetchProfile
  \/ FetchProfileFails
  \/ SignOut
  \/ RespondUnauthorized

AuthSpec == AuthInit /\ [][AuthNext]_vars

(***************************************************************************)
(* src/lib/dev-log-bus.ts and the SSE endpoint that feeds browsers from it *)
(***************************************************************************)
\* requests to the SSE endpoint
MaxStreams == 2

\* clients registered by callers of addClient; the send of the second throws
DirectClients == {1, 2}

ThrowingClients == {2}

\* the client made from the controller of the n-th SSE request
StreamClient(n) == 10 + n

BusClientIds == DirectClients \cup {StreamClient(n) : n \in 1..MaxStreams}

\* the lines logApiError forwards
DevLogLines == {"[ApiError] code=- status=0 msg=fetch failed", "[Unknown] boom"}

NodeEnvs == {"development", "production", "test"}

RECURSIVE SendLoop(_, _)
\* for (const c of clients) { try { c.send(message) } catch {} }: the calls
\* of send made, each with how it ended
SendLoop(remaining, message) ==
  IF remaining = {} THEN <<>>
  ELSE LET c == CHOOSE x \in remaining : TRUE
       IN <<[to |-> c, message |-> message, threw |-> c \in ThrowingClients]>>
            \o SendLoop(remaining \ {c}, message)

\* pushDevLog(message): the calls of send it makes
PushDevLog(mode, registered, message) ==
  IF mode # "development" THEN <<>> ELSE SendLoop(registered, message)

BusInit ==
  /\ ModuleLoaded
  /\ NoNormalizerCaller
  /\ NoCall
  /\ NoConcurrentCalls
  /\ NoHelper
  /\ NoAuthRequest
  /\ nodeEnv \in NodeEnvs
  /\ clients = {}
  /\ streams = <<>>
  /\ sendLog = <<>>
  /\ pushOutcome = NotApplied

\* addClient(client)
addClient ==
  /\ \E c \in DirectClients : clients' = clients \cup {c}
  /\ UNCHANGED <<nodeEnv, streams, sendLog, pushOutcome>>
  /\ UNCHANGED <<callVars, moduleVars, normalizerVars, concurrentVars, helperVars, authVars>>

\* removeClient(client)
removeClient ==
  /\ \E c \in DirectClients : clients' = clients \ {c}
  /\ UNCHANGED <<nodeEnv, streams, sendLog, pushOutcome>>
  /\ UNCHANGED <<callVars, moduleVars, normalizerVars, concurrentVars, helperVars, authVars>>

\* pushDevLog(message), called by logApiError or by anybody else
pushDevLog ==
  /\ \E m \in DevLogLines :
       /\ sendLog' = PushDevLog(nodeEnv, clients, m)
       /\ pushOutcome' = [t |-> "returned", message |-> m, registered |-> clients]
  /\ UNCHANGED <<nodeEnv, clients, streams>>
  /\ UNCHANGED <<callVars, moduleVars, normalizerVars, concurrentVars, helperVars, authVars>>

\* GET(request) of the SSE endpoint: 404 outside development; else the stream
\* starts, start(controller) registers the client, sends the greeting and
\* attaches the abort listener to request.signal.  The signal of the request
\* may be aborted already when GET runs: the listener is attached all the
\* same and never called.
GET_stream ==
  /\ Len(streams) < MaxStreams
  /\ IF nodeEnv # "development"
     THEN /\ streams' = Append(streams, [status |-> 404, client |-> 0, aborted |-> FALSE,
                                          listening |-> FALSE, closed |-> FALSE])
          /\ clients' = clients
     ELSE /\ \E aborted \in BOOLEAN :
               streams' = Append(streams,
                 [status |-> 200, client |-> StreamClient(Len(streams) + 1),
                  aborted |-> aborted, listening |-> TRUE, closed |-> FALSE])
          /\ clients' = clients \cup {StreamClient(Len(streams) + 1)}
  /\ UNCHANGED <<nodeEnv, sendLog, pushOutcome>>
  /\ UNCHANGED <<callVars, moduleVars, normalizerVars, concurrentVars, helperVars, authVars>>

\* the abort event of the signal of a request: the listener clears the
\* interval, removes the client and closes the controller
RequestAborts ==
  /\ \E i \in 1..Len(streams) :
       /\ streams[i].status = 200
       /\ ~streams[i].aborted
       /\ streams' = [streams EXCEPT ![i].aborted = TRUE, ![i].closed = TRUE]
       /\ clients' = clients \ {streams[i].client}
  /\ UNCHANGED <<nodeEnv, sendLog, pushOutcome>>
  /\ UNCHANGED <<callVars, moduleVars, normalizerVars, concurrentVars, helperVars, authVars>>

BusNext ==
  \/ addClient
  \/ removeClient
  \/ pushDevLog
  \/ GET_stream
  \/ RequestAborts

BusSpec == BusInit /\ [][BusNext]_vars

(***************************************************************************)
(* Several calls of http in flight through the one ky클라이언트: every call *)
(* runs the steps of a single call on its own locals, the steps of         *)
(* different calls interleave at the awaits                                *)
(***************************************************************************)
\* calls in flight together
MaxCalls == 2

CallIds == 1..MaxCalls

\* the locals of a call that has not started
IdleCall ==
  [pc |-> "idle", verb |-> "none", options |-> Undefined, requestData |-> Undefined,
   kyOptions |-> Undefined, answer |-> Undefined, res |-> NoResponse,
   parsed |-> Undefined, caught |-> Undefined, result |-> Undefined,
   thrown |-> Undefined]

\* the arguments of the calls made together
ConcurrentArgs ==
  { [verb |-> "get", options |-> Undefined, requestData |-> Undefined],
    [verb |-> "get", options |-> Obj("throwHttpErrors" :> Bool(FALSE)),
     requestData |-> Undefined],
    [verb |-> "post", options |-> Obj("json" :> Num(1)),
     requestData |-> Obj("name" :> Str("jin"))] }

\* what the transport does for them: an answer, or a throw without a response
ConcurrentAnswers ==
  { Response(200, Str("application/json; charset=utf-8"),
             Stringify(Obj("success" :> Bool(TRUE) @@ "data" :> Obj("id" :> Str("1")))),
             "api/test", TRUE),
    Response(500, Str("application/json; charset=utf-8"),
             Stringify(Obj("success" :> Bool(FALSE) @@ "statusCode" :> Num(500)
                           @@ "error" :> Obj("code" :> Str("PROFILES_FETCH_ERROR")
                                             @@ "message" :> Str("db down")))),
             "api/test", TRUE),
    Response(500, Str("text/html"), "<html>Internal Error</html>", "api/test", TRUE),
    Response(204, Null, "", "api/test", TRUE),
    ErrorValue("TimeoutError", "Request timed out") }

\* the options ky works with: 기본옵션 overridden by the options of the call
EffectiveOptions(base, kyOpts) ==
  IF IsNullish(kyOpts) THEN base ELSE Obj(kyOpts.o @@ base.o)

\* const res = ... of call i, kept with the locals of every call as if res
\* were declared at module level
WithRes_ModuleLevel(c, i, r) == [j \in DOMAIN c |-> [c[j] EXCEPT !.res = r]]

\* const res = await ky클라이언트.<verb>(...) of call i
WithRes(c, i, r) == [c EXCEPT ![i].res = r]

ConcurrentInit ==
  /\ ModuleLoaded
  /\ NoNormalizerCaller
  /\ NoCall
  /\ NoHelper
  /\ NoAuthRequest
  /\ NoBus
  /\ calls = [i \in CallIds |-> IdleCall]
  /\ baseOptions = DefaultOptions(prefixUrl)

\* http.<verb>(...) of one more call, up to its first await
Concurrent_http ==
  /\ \E i \in CallIds, a \in ConcurrentArgs :
       /\ calls[i].pc = "idle"
       /\ calls' = [calls EXCEPT
            ![i].pc = "request",
            ![i].verb = a.verb,
            ![i].options = a.options,
            ![i].requestData = a.requestData,
            ![i].kyOptions = IF a.verb = "post"
                             THEN withBody(a.options, a.requestData)
                             ELSE a.options]
  /\ UNCHANGED <<baseOptions, callVars, moduleVars, normalizerVars, helperVars, authVars, busVars>>

\* the await of the transport of one call settles
Concurrent_Transport ==
  /\ \E i \in CallIds, a \in ConcurrentAnswers :
       /\ calls[i].pc = "request"
       /\ calls' =
            IF a.t # "Response"
            THEN [calls EXCEPT ![i].answer = a, ![i].caught = a, ![i].pc = "catch"]
            ELSE IF ~ResponseOk(a)
                    /\ ThrowHttpErrors(EffectiveOptions(baseOptions, calls[i].kyOptions))
            THEN [calls EXCEPT ![i].answer = a, ![i].caught = HTTPError(a),
                               ![i].pc = "catch"]
            ELSE [WithRes(calls, i, a) EXCEPT ![i].answer = a, ![i].pc = "text"]
  /\ UNCHANGED <<baseOptions, callVars, moduleVars, normalizerVars, helperVars, authVars, busVars>>

\* const parsed = await parseApiResponse(res) of one call
Concurrent_Parse ==
  /\ \E i \in CallIds :
       /\ calls[i].pc = "text"
       /\ calls' =
            IF ParseApiResponse(calls[i].res).threw
            THEN [calls EXCEPT ![i].caught = ParseApiResponse(calls[i].res).val,
                               ![i].res = Consumed(calls[i].res),
                               ![i].pc = "catch"]
            ELSE [calls EXCEPT ![i].parsed = ParseApiResponse(calls[i].res).val,
                               ![i].res = Consumed(calls[i].res),
                               ![i].pc = "parsed"]
  /\ UNCHANGED <<baseOptions, callVars, moduleVars, normalizerVars, helperVars, authVars, busVars>>

\* return ensureOk(parsed) of one call
Concurrent_EnsureOk ==
  /\ \E i \in CallIds :
       /\ calls[i].pc = "parsed"
       /\ calls' =
            IF EnsureOk(calls[i].parsed).threw
            THEN [calls EXCEPT ![i].caught = EnsureOk(calls[i].parsed).val,
                               ![i].pc = "catch"]
            ELSE [calls EXCEPT ![i].result = EnsureOk(calls[i].parsed).val,
                               ![i].pc = "returned"]
  /\ UNCHANGED <<baseOptions, callVars, moduleVars, normalizerVars, helperVars, authVars, busVars>>

\* catch (e) { throw await toApiErrorAsync(e) } of one call
Concurrent_Catch ==
  /\ \E i \in CallIds :
       /\ calls[i].pc = "catch"
       /\ calls' = [calls EXCEPT ![i].thrown = ToApiErrorAsync(calls[i].caught).val,
                                  ![i].pc = "thrown"]
  /\ UNCHANGED <<baseOptions, callVars, moduleVars, normalizerVars, helperVars, authVars, busVars>>

ConcurrentNext ==
  \/ Concurrent_http
  \/ Concurrent_Transport
  \/ Concurrent_Parse
  \/ Concurrent_EnsureOk
  \/ Concurrent_Catch

ConcurrentSpec == ConcurrentInit /\ [][ConcurrentNext]_vars

\* the response the endpoint sent for the current call, if it sent one
Answer ==
  IF res # NoResponse THEN res
  ELSE IF pc \in {"catch", "clone_text", "thrown"} /\ caught.t = "HTTPError"
       THEN caught.response
       ELSE NoResponse

(***************************************************************************)
(* Properties of the request client                                        *)
(***************************************************************************)
\* the parser has resolved for the current call
HasParsed == parsed # Undefined

\* x.success === true
IsSuccess(x) == ~IsNullish(x) /\ Get(x, "success") = Bool(TRUE)

C2_WitnessNullBody == pc = "thrown" /\ parsed = Null
C2_WitnessNonError == pc = "thrown" /\ res = NoResponse /\ caught \in {Str("boom"), Undefined, Null}

\* the endpoint answered with the JSON text of envelope f, labelled as JSON
AnsweredJson(f) ==
  /\ Answer # NoResponse
  /\ Answer.readable
  /\ Answer.text = Stringify(f)
  /\ Includes(ContentTypeOf(Answer), "application/json")

\* C3: when the body received is a well-formed Failure envelope, the error
\* thrown to the caller has the envelope's error.code and error.message, both
\* when the transport threw an HTTPError carrying the body and when it returned
\* the response and the parser detected the failure.
C3_FailureEnvelopeVerbatim ==
  \A f \in FailureEnvelopes :
    (pc = "thrown" /\ AnsweredJson(f))
      => /\ thrown.code = Get(Get(f, "error"), "code")
         /\ thrown.message = Get(Get(f, "error"), "message")

\* C4: when the transport returns a response whose body is not empty and not
\* JSON, the error thrown to the caller has code INVALID_JSON.
C4_InvalidJsonCode ==
  (pc = "thrown" /\ res # NoResponse /\ res.readable /\ res.text \in NonJsonTexts)
    => thrown.code = Str("INVALID_JSON")

\* C5: when the endpoint answers with a non-2xx status and an empty body, the
\* error thrown to the caller has code EMPTY_ERROR_BODY, with the default
\* options and with throwHttpErrors: false.
C5_EmptyErrorBodyCode ==
  (/\ pc = "thrown"
   /\ Answer # NoResponse
   /\ Answer.readable
   /\ Answer.text = ""
   /\ ~ResponseOk(Answer))
    => thrown.code = Str("EMPTY_ERROR_BODY")

\* the Success envelope that carries every optional field
FullSuccessEnvelope ==
  Obj("success" :> Bool(TRUE) @@ "data" :> Arr(<<Num(1), Num(2)>>)
      @@ "meta" :> Obj("page" :> Num(1)) @@ "message" :> Str("ok")
      @@ "statusCode" :> Num(200) @@ "correlationId" :> Str("c-1"))

\* C6: when the transport returns a 2xx response whose body is the JSON of a
\* Success envelope, the call returns exactly that envelope, every field
\* unchanged and none added or removed, and throws nothing.
C6_SuccessEnvelopeReturnedAsIs ==
  \A v \in SuccessEnvelopes :
    (/\ res # NoResponse
     /\ ResponseOk(res)
     /\ res.readable
     /\ res.text = Stringify(v)
     /\ pc \notin {"text", "parsed"})
      => /\ pc = "returned"
         /\ result = v
         /\ thrown = Undefined

\* a call returned for a 2xx answer carrying the envelope with every field
C6_Witness ==
  /\ pc = "returned"
  /\ ResponseOk(res)
  /\ res.text = Stringify(FullSuccessEnvelope)

\* C7: parseApiResponse on an empty body text with a 2xx status returns a
\* Success envelope: success true, data undefined, statusCode the status.
C7_EmptyOkBodyIsSuccess ==
  (HasParsed /\ res # NoResponse /\ res.text = "" /\ ResponseOk(res))
    => /\ Get(parsed, "success") = Bool(TRUE)
       /\ Get(parsed, "data") = Undefined
       /\ Get(parsed, "statusCode") = Num(res.status)

\* the parser has resolved for an empty 204 answer
C7_Witness ==
  /\ pc = "parsed"
  /\ res.text = ""
  /\ res.status = 204

\* C8: parseApiResponse on an empty body text with a non-2xx status returns a
\* Failure: success false, error.code EMPTY_ERROR_BODY, statusCode the status;
\* never a Success.
C8_EmptyErrorBodyIsFailure ==
  (HasParsed /\ res # NoResponse /\ res.text = "" /\ ~ResponseOk(res))
    => /\ Get(parsed, "success") = Bool(FALSE)
       /\ Get(Get(parsed, "error"), "code") = Str("EMPTY_ERROR_BODY")
       /\ Get(parsed, "statusCode") = Num(res.status)

\* the parser has resolved for an empty 500 answer (throwHttpErrors: false)
C8_Witness ==
  /\ pc = "parsed"
  /\ res.text = ""
  /\ res.status = 500

\* C9: for every non-empty body text that JSON.parse rejects, whitespace-only
\* text included, parseApiResponse returns (it does not throw) a Failure with
\* error.code INVALID_JSON, statusCode the status, and details.raw the first
\* min(200, length) characters of the text.
C9_InvalidJsonIsFailure ==
  (res # NoResponse /\ res.readable /\ res.text \in NonJsonTexts /\ pc # "text")
    => /\ HasParsed
       /\ Get(parsed, "success") = Bool(FALSE)
       /\ Get(Get(parsed, "error"), "code") = Str("INVALID_JSON")
       /\ Get(parsed, "statusCode") = Num(res.status)
       /\ LET raw == Get(Get(Get(parsed, "error"), "details"), "raw")
              n == IF Len(res.text) < RawExcerptLen THEN Len(res.text) ELSE RawExcerptLen
          IN /\ raw.t = "str"
             /\ Len(raw.s) = n
             /\ raw.s = SubSeq(res.text, 1, n)

\* the parser has resolved for a text longer than the excerpt
C9_Witness ==
  /\ pc = "parsed"
  /\ res.text \in NonJsonTexts
  /\ Len(res.text) > RawExcerptLen

\* the whitespace-only text of C9 is parsed as well
C9_WitnessWhitespace == pc = "parsed" /\ res.text = " "

\* C10: for every JSON body of the Success shape with a 2xx status,
\* parseApiResponse returns an envelope with success true whose data is the
\* data of the body; the envelope is fixed by the body text: it is the same
\* under every verb, option, content type and 2xx status.
C10_SuccessBodyParsed ==
  /\ \A v \in SuccessEnvelopes :
       (HasParsed /\ res # NoResponse /\ ResponseOk(res) /\ res.text = Stringify(v))
         => /\ Get(parsed, "success") = Bool(TRUE)
            /\ Get(parsed, "data") = Get(v, "data")
            /\ parsed = v
  /\ (HasParsed /\ res # NoResponse /\ ResponseOk(res) /\ res.text \in PaddedJsonTexts)
       => /\ Get(parsed, "success") = Bool(TRUE)
          /\ Get(parsed, "data") = Arr(<<>>)

\* the parser has resolved for a 2xx answer whose data is an object
C10_Witness ==
  /\ pc = "parsed"
  /\ res.status = 200
  /\ res.text = Stringify(Obj("success" :> Bool(TRUE) @@ "data" :> Obj("id" :> Str("1"))))

(***************************************************************************)
(* Properties of the normalizer, toApiErrorAsync                           *)
(***************************************************************************)
\* the call threw what toApiErrorAsync made of an HTTPError of the transport
NormalizedHttpError == pc = "thrown" /\ caught.t = "HTTPError"

\* the content type of the error response names JSON
JsonLabelled(response) == Includes(ContentTypeOf(response), "application/json")

\* the body of the error response was read and JSON.parse accepts it
JsonBody(response) == response.readable /\ JSONparse(response.text).ok

\* x is an object (or array) that has a key success
HasSuccessKey(x) == x.t = "obj" /\ "success" \in DOMAIN x.o

\* C11: an HTTPError whose JSON body has the envelope shape but does not say
\* success: false is normalized to code UPSTREAM_INCONSISTENT, statusCode the
\* HTTP status, the body kept inside details.
C11_InconsistentBodyCode ==
  (/\ NormalizedHttpError
   /\ JsonLabelled(caught.response)
   /\ JsonBody(caught.response)
   /\ HasSuccessKey(JSONparse(caught.response.text).val)
   /\ JSONparse(caught.response.text).val.o["success"] # Bool(FALSE))
    => /\ thrown.code = Str("UPSTREAM_INCONSISTENT")
       /\ thrown.statusCode = Num(caught.response.status)
       /\ Get(thrown.details, "body") = JSONparse(caught.response.text).val

\* the message C12 expects for the JSON body x
UpstreamJsonMessage(x) ==
  LET inner == IF x.t = "obj" /\ "error" \in DOMAIN x.o /\ x.o["error"].t = "obj"
                  /\ "message" \in DOMAIN x.o["error"].o
               THEN x.o["error"].o["message"] ELSE Undefined
      outer == IF x.t = "obj" /\ "message" \in DOMAIN x.o
               THEN x.o["message"] ELSE Undefined
  IN IF Truthy(inner) THEN inner
     ELSE IF Truthy(outer) THEN outer
     ELSE Str("Upstream JSON error")

\* C12: an HTTPError labelled application/json whose body parses as JSON
\* without a success key (null, numbers, strings and arrays included) is
\* normalized to code UPSTREAM_JSON_ERROR, statusCode the HTTP status, and the
\* message body.error.message if truthy, else body.message if truthy, else
\* "Upstream JSON error" (the Error constructor stores the message as a string).
C12_UpstreamJsonError ==
  (/\ NormalizedHttpError
   /\ JsonLabelled(caught.response)
   /\ JsonBody(caught.response)
   /\ ~HasSuccessKey(JSONparse(caught.response.text).val))
    => /\ thrown.code = Str("UPSTREAM_JSON_ERROR")
       /\ thrown.statusCode = Num(caught.response.status)
       /\ thrown.message =
            Str(JSToString(UpstreamJsonMessage(JSONparse(caught.response.text).val)))

\* normalized: a 500 whose JSON body has an empty error.message and a message
C12_Witness ==
  /\ NormalizedHttpError
  /\ JsonLabelled(caught.response)
  /\ caught.response.text =
       Stringify(Obj("error" :> Obj("message" :> Str("")) @@ "message" :> Str("outer")))
  /\ thrown.message = Str("outer")

\* the other bodies of C12 are normalized as well: null, an array, a message
\* that is no string
C12_WitnessNull ==
  /\ NormalizedHttpError /\ JsonLabelled(caught.response)
  /\ caught.response.text = "null"
  /\ thrown.message = Str("Upstream JSON error")
C12_WitnessArray ==
  /\ NormalizedHttpError /\ JsonLabelled(caught.response)
  /\ caught.response.text = "[1]"
C12_WitnessNumberMessage ==
  /\ NormalizedHttpError /\ JsonLabelled(caught.response)
  /\ caught.response.text = "{\"message\":5}"
  /\ thrown.message = Str("5")

\* the message C13 expects for the body text: at most 500 characters of the
\* text without the whitespace around it
UpstreamTextMessage(text) ==
  LET first == IF \E i \in 1..Len(text) : CharAt(text, i) \notin Whitespace
               THEN CHOOSE i \in 1..Len(text) :
                      /\ CharAt(text, i) \notin Whitespace
                      /\ \A j \in 1..(i - 1) : CharAt(text, j) \in Whitespace
               ELSE 0
      last == IF first = 0 THEN 0
              ELSE CHOOSE i \in 1..Len(text) :
                     /\ CharAt(text, i) \notin Whitespace
                     /\ \A j \in (i + 1)..Len(text) : CharAt(text, j) \in Whitespace
      stop == IF last - first + 1 > 500 THEN first + 499 ELSE last
  IN IF first = 0 THEN "Upstream error" ELSE SubSeq(text, first, stop)

\* C13: an HTTPError whose content type is not JSON, or is JSON while the body
\* does not parse, is normalized to code UPSTREAM_TEXT_ERROR, statusCode the
\* HTTP status, and the first 500 characters of the trimmed body as message,
\* or "Upstream error" when that is empty or the body could not be read.  A
\* GET answered 500 with <html>Internal Error</html> throws that text.
C13_UpstreamTextError ==
  /\ (/\ NormalizedHttpError
      /\ ~(JsonLabelled(caught.response) /\ JsonBody(caught.response)))
       => /\ thrown.code = Str("UPSTREAM_TEXT_ERROR")
          /\ thrown.statusCode = Num(caught.response.status)
          /\ thrown.message =
               Str(IF caught.response.readable
                   THEN UpstreamTextMessage(caught.response.text)
                   ELSE "Upstream error")
  /\ (/\ pc = "thrown" /\ verb = "get"
      /\ Answer # NoResponse /\ Answer.readable
      /\ Answer.status = 500
      /\ Answer.text = "<html>Internal Error</html>"
      /\ ThrowHttpErrors(kyOptions))
       => /\ thrown.code = Str("UPSTREAM_TEXT_ERROR")
          /\ thrown.message = Str("<html>Internal Error</html>")

\* normalized: a body with whitespace around its text
C13_Witness ==
  /\ NormalizedHttpError
  /\ caught.response.text = " \n<p>Bad Gateway</p>\t "
  /\ thrown.message = Str("<p>Bad Gateway</p>")

\* the other cases of C13 are reached as well: a text cut at 500 characters,
\* a body that could not be read, the GET of the scenario
C13_WitnessLong ==
  /\ NormalizedHttpError
  /\ Len(caught.response.text) > 500
  /\ Len(thrown.message.s) = 500
C13_WitnessUnreadable ==
  /\ NormalizedHttpError
  /\ ~caught.response.readable
  /\ thrown.message = Str("Upstream error")
C13_WitnessScenario ==
  /\ pc = "thrown" /\ verb = "get"
  /\ caught.t = "HTTPError"
  /\ caught.response.status = 500
  /\ caught.response.text = "<html>Internal Error</html>"

\* C14: every thrown value that is no HTTPError (no object with a response
\* property and the name HTTPError) is normalized to code UNKNOWN_ERROR,
\* statusCode 0, details the thrown value, and the message of the value when
\* it is an Error, else "Unknown error"; an HTTPError never takes that branch.
C14_UnknownError ==
  /\ (pc = "thrown" /\ caught.t # "HTTPError")
       => /\ thrown.code = Str("UNKNOWN_ERROR")
          /\ thrown.statusCode = Num(0)
          /\ thrown.details = caught
          /\ thrown.message =
               (IF caught.t \in {"Error", "ApiError"}
                THEN caught.message ELSE Str("Unknown error"))
  /\ NormalizedHttpError
       => /\ thrown.details # caught
          /\ thrown.statusCode # Num(0)

\* normalized: the timeout of the transport
C14_Witness ==
  /\ pc = "thrown"
  /\ caught = ErrorValue("TimeoutError", "Request timed out")
  /\ thrown.message = Str("Request timed out")

\* the near misses of C14 are normalized as well: an Error named HTTPError
\* without a response, an object with a response and another name, undefined
C14_WitnessNamedOnly ==
  pc = "thrown" /\ caught = ErrorValue("HTTPError", "not from ky")
C14_WitnessResponseOnly ==
  pc = "thrown" /\ caught = Obj("response" :> Null @@ "name" :> Str("AxiosError"))
C14_WitnessUndefined ==
  pc = "thrown" /\ caught = Undefined /\ thrown.message = Str("Unknown error")

\* C15: the normalized error carries the thrown value it was made from, for an
\* HTTPError as for an unknown exception.
C15_CarriesCause ==
  pc = "thrown" => \E k \in (DOMAIN thrown) \ {"t"} : thrown[k] = caught

\* C16: toApiErrorAsync called twice on the same HTTPError resolves to equal
\* code, statusCode and message; it reads a clone, so the body of
\* error.response is not consumed and the caller can still read it afterwards.
C16_NormalizeTwiceEqual ==
  /\ \A i, j \in 1..Len(nResults) :
       (~nResults[i].callerHadRead /\ ~nResults[j].callerHadRead)
         => /\ ~nResults[i].outcome.threw
            /\ ~nResults[j].outcome.threw
            /\ nResults[i].outcome.val.code = nResults[j].outcome.val.code
            /\ nResults[i].outcome.val.statusCode = nResults[j].outcome.val.statusCode
            /\ nResults[i].outcome.val.message = nResults[j].outcome.val.message
  /\ (nError # Undefined /\ nCallerText = NoRead) => ~nError.response.bodyUsed
  /\ (nCallerText # NoRead /\ nError.response.readable)
       => nCallerText = [threw |-> FALSE, val |-> Str(nError.response.text)]

\* two calls resolved for an HTML error page, and then the caller read it
C16_Witness ==
  /\ Len(nResults) = 2
  /\ ~nResults[2].callerHadRead
  /\ nResults[2].outcome.val.message = Str("<html>Internal Error</html>")
  /\ nCallerText = [threw |-> FALSE, val |-> Str("<html>Internal Error</html>")]

(***************************************************************************)
(* Properties of withBody                                                  *)
(***************************************************************************)
\* a write verb has handed its options to the transport
BodySent == pc = "request" /\ verb \in {"post", "put", "patch"}

\* the payload keys of the options handed to the transport
PayloadKeys ==
  IF kyOptions.t = "obj" THEN {"json", "body"} \cap DOMAIN kyOptions.o ELSE {}

\* C17: for post, put and patch with an explicit body that is not undefined,
\* the options handed to the transport hold no json or body of the caller's
\* options: the explicit body is the only payload.  A FormData body with a
\* json in the options sends the FormData and no json.
C17_ExplicitBodyOnly ==
  (BodySent /\ requestData # Undefined)
    => /\ Cardinality(PayloadKeys) = 1
       /\ \A k \in PayloadKeys : kyOptions.o[k] = requestData
       /\ (requestData.t = "FormData" /\ HasKey(options, "json"))
            => /\ "json" \notin DOMAIN kyOptions.o
               /\ kyOptions.o["body"] = requestData

\* the kinds of body C18 lists
LiteralKinds == {"FormData", "Blob", "ArrayBuffer", "TypedArray", "URLSearchParams", "str"}

\* C18: withBody of src/lib/ky-client.ts hands a FormData, Blob, ArrayBuffer,
\* typed array, URLSearchParams or string to the transport as body, the value
\* itself, and the options then hold no json.
C18_LiteralBody ==
  (/\ BodySent
   /\ clientModule = "src/lib/ky-client.ts"
   /\ requestData.t \in LiteralKinds)
    => /\ kyOptions.t = "obj"
       /\ "body" \in DOMAIN kyOptions.o
       /\ kyOptions.o["body"] = requestData
       /\ "json" \notin DOMAIN kyOptions.o

\* sent: the empty string as explicit body, the options holding a json
C18_Witness ==
  /\ BodySent
  /\ clientModule = "src/lib/ky-client.ts"
  /\ requestData = Str("")
  /\ HasKey(options, "json")
  /\ kyOptions.o["body"] = Str("")

\* a typed array was sent as well
C18_WitnessBinary ==
  /\ BodySent
  /\ clientModule = "src/lib/ky-client.ts"
  /\ requestData.t = "TypedArray"
  /\ verb = "patch"

\* C19: withBody of src/lib/ky-client.ts hands every other body that is not
\* undefined (objects, arrays, null, numbers, booleans) to the transport as
\* json and never as body; every defined body ends up under exactly one of
\* body and json.
C19_OtherBodyAsJson ==
  /\ (/\ BodySent
      /\ clientModule = "src/lib/ky-client.ts"
      /\ requestData # Undefined
      /\ requestData.t \notin LiteralKinds)
       => /\ kyOptions.t = "obj"
          /\ "json" \in DOMAIN kyOptions.o
          /\ kyOptions.o["json"] = requestData
          /\ "body" \notin DOMAIN kyOptions.o
  /\ (/\ BodySent
      /\ clientModule = "src/lib/ky-client.ts"
      /\ requestData # Undefined)
       => Cardinality(PayloadKeys) = 1

\* sent: null as explicit body, the options holding a body
C19_Witness ==
  /\ BodySent
  /\ clientModule = "src/lib/ky-client.ts"
  /\ requestData = Null
  /\ HasKey(options, "body")
  /\ kyOptions.o["json"] = Null

\* a plain object and the number 0 were sent as well
C19_WitnessObject ==
  /\ BodySent
  /\ clientModule = "src/lib/ky-client.ts"
  /\ requestData = Obj("name" :> Str("jin"))
  /\ options = Undefined
  /\ kyOptions = Obj("json" :> Obj("name" :> Str("jin")))
C19_WitnessZero ==
  /\ BodySent
  /\ clientModule = "src/lib/ky-client.ts"
  /\ requestData = Num(0)
  /\ kyOptions.o["json"] = Num(0)

(***************************************************************************)
(* Properties of the base URL                                              *)
(***************************************************************************)
\* the positions in the priority list of the variables set to a non-empty value
SetPositions ==
  {i \in 1..Len(EnvNames) : env[EnvNames[i]] \notin {Undefined, Str("")}}

\* the base URL C20 expects
ExpectedPrefixUrl ==
  IF SetPositions = {}
  THEN IF isServer THEN Str("http://localhost:3000") ELSE Str("")
  ELSE LET first == CHOOSE i \in SetPositions : \A j \in SetPositions : i <= j
       IN IF EnvNames[first] = "VERCEL_URL"
          THEN Str("https://" \o env[EnvNames[first]].s)
          ELSE env[EnvNames[first]]

\* C20: the base URL is the first non-empty of NEXT_PUBLIC_API_ORIGIN,
\* NEXT_PUBLIC_API_BASE_URL, NEXT_PUBLIC_SITE_URL, NEXT_PUBLIC_SUPABASE_URL and
\* https:// + VERCEL_URL; with none set it is "" in a browser and
\* http://localhost:3000 on a server.  An empty variable counts as unset and a
\* later variable never overrides an earlier one.
C20_BaseUrlPriority ==
  prefixUrl # Undefined => prefixUrl = ExpectedPrefixUrl

\* loaded on a server with the first variable empty, the second unset, the
\* third and the last set
C20_Witness ==
  /\ prefixUrl = Str("https://site.example.com")
  /\ isServer
  /\ env["NEXT_PUBLIC_API_ORIGIN"] = Str("")
  /\ env["NEXT_PUBLIC_API_BASE_URL"] = Undefined
  /\ env["VERCEL_URL"] # Undefined

\* loaded with VERCEL_URL alone, and with nothing but empty variables
C20_WitnessVercel ==
  /\ prefixUrl = Str("https://blog-git-main.vercel.app")
  /\ SetPositions = {5}
C20_WitnessServerDefault ==
  /\ prefixUrl = Str("http://localhost:3000")
  /\ \A n \in DOMAIN env : env[n] = Str("")
C20_WitnessBrowserDefault ==
  /\ prefixUrl = Str("")
  /\ ~isServer
  /\ env["VERCEL_URL"] = Str("")

(***************************************************************************)
(* Properties of calls in flight together                                  *)
(***************************************************************************)
\* what parse and success check make of response r when nothing else runs
AloneAfterResponse(r) ==
  IF ParseApiResponse(r).threw
  THEN [result |-> Undefined, thrown |-> ToApiErrorAsync(ParseApiResponse(r).val).val]
  ELSE IF EnsureOk(ParseApiResponse(r).val).threw
  THEN [result |-> Undefined,
        thrown |-> ToApiErrorAsync(EnsureOk(ParseApiResponse(r).val).val).val]
  ELSE [result |-> EnsureOk(ParseApiResponse(r).val).val, thrown |-> Undefined]

\* the outcome of the call with arguments c.verb, c.options, c.requestData
\* and the transport's answer c.answer, run alone from start to end
OutcomeAlone(c) ==
  IF c.answer.t # "Response"
  THEN [result |-> Undefined, thrown |-> ToApiErrorAsync(c.answer).val]
  ELSE IF /\ ~ResponseOk(c.answer)
          /\ ~(~IsNullish(c.options) /\ HasKey(c.options, "throwHttpErrors")
               /\ ~Truthy(Get(c.options, "throwHttpErrors")))
  THEN [result |-> Undefined, thrown |-> ToApiErrorAsync(HTTPError(c.answer)).val]
  ELSE AloneAfterResponse(c.answer)

\* C21: under every interleaving of the calls in flight, the outcome of each
\* call (the envelope returned or the error thrown) is the outcome of that
\* call run alone with its own arguments and its own answer, and 기본옵션 is
\* never modified.
C21_CallsIndependent ==
  /\ baseOptions = DefaultOptions(prefixUrl)
  /\ \A i \in DOMAIN calls :
       calls[i].pc \in {"returned", "thrown"}
         => /\ calls[i].result = OutcomeAlone(calls[i]).result
            /\ calls[i].thrown = OutcomeAlone(calls[i]).thrown

\* two calls were in flight together and ended differently: the first one
\* answered last returned, the other one threw
C21_Witness ==
  /\ calls # <<>>
  /\ calls[1].pc = "returned"
  /\ calls[2].pc = "thrown"
  /\ calls[1].res.status = 200
  /\ calls[2].caught.t = "HTTPError"

(***************************************************************************)
(* Properties of ensureOk and unwrap                                       *)
(***************************************************************************)
\* the message the claim gives the ApiError of failure f: error.message if
\* present, else the top-level message, else "API Error"
ExpectedMessage(f) ==
  IF ~IsNullish(Get(f, "error")) /\ ~IsNullish(Get(Get(f, "error"), "message"))
  THEN Get(Get(f, "error"), "message")
  ELSE IF ~IsNullish(Get(f, "message"))
  THEN Get(f, "message")
  ELSE Str("API Error")

\* e is the ApiError the claim describes for failure f
ExpectedApiError(e, f) ==
  /\ e.t = "ApiError"
  /\ e.message = ExpectedMessage(f)
  /\ e.code = (IF IsNullish(Get(f, "error")) THEN Undefined
               ELSE Get(Get(f, "error"), "code"))
  /\ e.statusCode = Get(f, "statusCode")
  /\ e.correlationId = Get(f, "correlationId")
  /\ e.details = (IF IsNullish(Get(f, "error")) THEN Undefined
                  ELSE Get(Get(f, "error"), "details"))
  /\ e.fields = (IF IsNullish(Get(f, "error")) THEN Undefined
                 ELSE Get(Get(f, "error"), "fields"))

OrderedMoves ==
  { <<"request", "text">>, <<"request", "catch">>,
    <<"text", "parsed">>, <<"text", "catch">>,
    <<"parsed", "returned">>, <<"parsed", "catch">>,
    <<"catch", "clone_text">>, <<"catch", "thrown">>,
    <<"clone_text", "thrown">> }

\* C23: a call asks the transport once, when it starts, and never again: a
\* failed transport call or a failed parse leads to normalization and the
\* throw. The steps of a call are ordered request, read body, parse, success
\* check; the body of the returned response is read at most once; an error is
\* normalized only after something was thrown.
C23_OneRequestInOrder ==
  [][ /\ \/ Settled /\ pc' = "request"
         \/ <<pc, pc'>> \in OrderedMoves
      /\ pc' # "request" /\ res.t = "Response" /\ res.bodyUsed => res' = res
      /\ pc' # "request" /\ res' # res /\ res.t = "Response"
           => pc = "text" /\ res' = Consumed(res)
      /\ thrown' # Undefined => pc \in {"catch", "clone_text"} ]_vars

\* the body of the answer was read once, parsing it threw, and the call ended
\* with the normalized error without asking the transport again
C23_Witness ==
  /\ pc = "thrown"
  /\ res.t = "Response"
  /\ res.bodyUsed
  /\ caught.t = "Error"
  /\ parsed = Undefined
  /\ thrown.t = "ApiError"

(***************************************************************************)
(* Properties of mergeSearchParams                                         *)
(***************************************************************************)
\* the pairs an argument of mergeSearchParams stands for
EntriesOf(value) ==
  IF ToURLSearchParams(value) = Undefined THEN <<>>
  ELSE ToURLSearchParams(value).list

\* the values a list holds for a name, in order
ValuesOf(list, name) ==
  LET Named(p) == p[1] = name
  IN [i \in 1..Len(SelectSeq(list, Named)) |-> SelectSeq(list, Named)[i][2]]

\* the pairs of the merged result
MergedEntries == IF fnOutput = Undefined THEN <<>> ELSE fnOutput.list

\* C24: mergeSearchParams(base, override) gives the override precedence: for
\* every key of the override the result holds exactly the override's values
\* and none of the base's, and every key of the base that the override does
\* not have keeps its values, also when several distinct keys of the base all
\* occur in the override.
C24_OverridePrecedence ==
  fnName = "mergeSearchParams" =>
    \A k \in ParamKeys :
      ValuesOf(MergedEntries, k) =
        IF HasParam(EntriesOf(fnInput.override), k)
        THEN ValuesOf(EntriesOf(fnInput.override), k)
        ELSE ValuesOf(EntriesOf(fnInput.base), k)

(***************************************************************************)
(* Properties of the statusCode of a normalized HTTP error                 *)
(***************************************************************************)
\* the body of the error response is a Failure envelope, which the
\* normalizer uses as it is
FailureBody(response) ==
  /\ JsonLabelled(response)
  /\ JsonBody(response)
  /\ HasSuccessKey(JSONparse(response.text).val)
  /\ JSONparse(response.text).val.o["success"] = Bool(FALSE)

\* C25: for an HTTPError of the transport the statusCode of the normalized
\* error is the HTTP status of the response whenever the failure is built by
\* the normalizer (envelope-shaped body that does not say success: false,
\* other JSON, text); when the body is a Failure envelope, statusCode is what
\* the statusCode member of the body holds, absent or different from the
\* HTTP status included, and the HTTP status is not used.
C25_StatusCodeOrigin ==
  NormalizedHttpError =>
    IF FailureBody(caught.response)
    THEN thrown.statusCode = Get(JSONparse(caught.response.text).val, "statusCode")
    ELSE thrown.statusCode = Num(caught.response.status)

\* normalized: a 500 whose Failure body carries statusCode 400
C25_Witness ==
  /\ NormalizedHttpError
  /\ FailureBody(caught.response)
  /\ caught.response.status = 500
  /\ thrown.statusCode = Num(400)

\* normalized: a 500 whose Failure body carries no statusCode
C25_WitnessAbsent ==
  /\ NormalizedHttpError
  /\ FailureBody(caught.response)
  /\ caught.response.status = 500
  /\ thrown.statusCode = Undefined

C26_WitnessNoBody ==
  /\ pc = "request"
  /\ requestData = Undefined
  /\ options.t = "obj"
  /\ "json" \in DOMAIN options.o
  /\ kyOptions = options

(***************************************************************************)
(* Properties of the admin login                                           *)
(***************************************************************************)
\* the text starts with /admin
IntoAdmin(text) == Len(text) >= 6 /\ SubSeq(text, 1, 6) = "/admin"

\* the target the claims give a redirectTo parameter: the parameter itself
\* when it starts with /admin, else /admin
SanitizedTarget(param) ==
  IF param.t = "str" /\ IntoAdmin(param.s) THEN param ELSE Str("/admin")

\* the session belongs to a user whose email has a row in profiles
Authorized(session) ==
  /\ session.t = "obj"
  /\ EmailOf(session).t = "str"
  /\ EmailOf(session).s \in ProfileEmails

\* C27: the OAuth callback redirects into the admin area only when, after the
\* optional code exchange, there is a session whose email has a profile row;
\* with no session email or no profile it signs the session out before it
\* answers, and redirects to /auth/login with error=unauthorized and
\* redirectTo the sanitized target. No execution redirects to an /admin path
\* and leaves an unauthorized session signed in.
C27_CallbackAdmitsProfilesOnly ==
  authPc = "done" /\ authReq.handler = "callback" /\ authResponse.kind = "redirect"
    => IF IntoAdmin(authResponse.location.s)
       THEN Authorized(authSession) /\ Authorized(providerSession)
       ELSE /\ ~Authorized(authSession)
            /\ providerSession = Null
            /\ authResponse.location = Str("/auth/login")
            /\ authResponse.error = Str("unauthorized")
            /\ authResponse.redirectTo = SanitizedTarget(authReq.redirectTo)

\* a stranger came back from the provider with a foreign redirectTo: signed
\* out and sent to the login page
C27_Witness ==
  /\ authPc = "done"
  /\ authReq.handler = "callback"
  /\ authReq.code = Str("code-stranger")
  /\ authReq.redirectTo = Str("//evil.com")
  /\ authSession = SessionOf(Obj("email" :> Str("stranger@mail.com")))
  /\ providerSession = Null
  /\ authResponse = Redirect(Str("/auth/login"), Str("unauthorized"), Str("/admin"))

\* an admin came back from the provider and was let in
C27_WitnessAdmin ==
  /\ authPc = "done"
  /\ authReq.handler = "callback"
  /\ authReq.code = Str("code-admin")
  /\ authResponse = Redirect(Str("/admin/posts?x=1"), Null, Null)

\* the target a handler computed from the redirectTo parameter
ComputedTarget ==
  IF authResponse.kind = "redirect" /\ authResponse.location # Str("/auth/login")
  THEN authResponse.location
  ELSE authResponse.redirectTo

\* C28: for every value of the redirectTo parameter (absent, empty, absolute,
\* protocol-relative, anything else) the target the callback handlers and the
\* login page compute for after the login starts with /admin: it is the
\* parameter when that starts with /admin, else exactly /admin.
C28_TargetInsideAdmin ==
  (/\ authPc = "done"
   /\ authReq.handler \in {"callback", "callback_route", "LoginPage"}
   /\ authResponse.kind # "error")
    => /\ ComputedTarget.t = "str"
       /\ IntoAdmin(ComputedTarget.s)
       /\ ComputedTarget = SanitizedTarget(authReq.redirectTo)

\* the callback answered a protocol-relative redirectTo with /admin
C28_Witness ==
  /\ authPc = "done"
  /\ authReq.handler = "callback_route"
  /\ authReq.redirectTo = Str("//evil.com")
  /\ authResponse.location = Str("/admin")

\* the login page kept a redirectTo below /admin
C28_WitnessKept ==
  /\ authPc = "done"
  /\ authReq.handler = "LoginPage"
  /\ authReq.redirectTo = Str("/admin/posts?x=1")
  /\ authResponse.redirectTo = Str("/admin/posts?x=1")

\* C29: the middleware of /admin/:path* returns the prepared pass-through
\* response only when the session lookup gave a session; with no session it
\* returns a redirect to /auth/login whose redirectTo is the requested
\* pathname, never the pass-through response.
C29_MiddlewareGuards ==
  authPc = "done" /\ authReq.handler = "middleware"
    => IF authSession = Null
       THEN /\ authResponse.kind = "redirect"
            /\ authResponse.location = Str("/auth/login")
            /\ authResponse.redirectTo = Str(authReq.pathname)
       ELSE authResponse.kind = "next"

\* a visitor without session asked for a page below /admin
C29_Witness ==
  /\ authPc = "done"
  /\ authReq.handler = "middleware"
  /\ authReq.pathname = "/admin/posts/1"
  /\ authSession = Null
  /\ authResponse.redirectTo = Str("/admin/posts/1")

\* a visitor with a session was let through
C29_WitnessSession ==
  /\ authPc = "done"
  /\ authReq.handler = "middleware"
  /\ authSession # Null
  /\ authResponse.kind = "next"

(***************************************************************************)
(* Properties of the dev log bus                                           *)
(***************************************************************************)
\* the calls of send the last pushDevLog made on client c
SendsTo(c) == {i \in 1..Len(sendLog) : sendLog[i].to = c}

\* the last pushDevLog returned; in development it called send with its
\* message once on each client registered at that moment, throwing ones
\* included, and on nobody else; outside development it called nobody
DeliveredToRegistered ==
  pushOutcome # NotApplied =>
    /\ pushOutcome.t = "returned"
    /\ \A i \in 1..Len(sendLog) : sendLog[i].message = pushOutcome.message
    /\ \A c \in BusClientIds :
         Cardinality(SendsTo(c)) =
           IF nodeEnv = "development" /\ c \in pushOutcome.registered THEN 1 ELSE 0

\* the client of every started stream is registered until the signal of its
\* request is aborted, and not registered from then on
RegisteredUntilAbort ==
  \A i \in 1..Len(streams) :
    streams[i].status = 200 => (streams[i].client \in clients <=> ~streams[i].aborted)

\* C30: after any sequence of addClient, removeClient and pushDevLog, in
\* development each pushDevLog(message) calls send(message) exactly once on
\* every registered client and on no removed one, a client whose send throws
\* neither stops the delivery to the others nor makes pushDevLog throw, and
\* outside development pushDevLog delivers to nobody. The client of the SSE
\* endpoint is registered when the stream starts, and once the request is
\* aborted it is no longer registered and gets no further message.
C30_DevLogBus == DeliveredToRegistered /\ RegisteredUntilAbort

\* the client of a stream whose request was aborted before GET ran is
\* registered and was handed the last line
C30_AbortedStillRegistered ==
  /\ Len(streams) > 0
  /\ streams[1].status = 200
  /\ streams[1].aborted
  /\ streams[1].client \in clients
  /\ SendsTo(streams[1].client) # {}

\* a line was pushed to a throwing and a healthy client
C30_DeliveredPastThrowingClient ==
  /\ nodeEnv = "development"
  /\ pushOutcome # NotApplied
  /\ pushOutcome.registered = {1, 2}
  /\ Len(sendLog) = 2

====
